---- MODULE Spec2Model ----
(***************************************************************************)
(* Model of the Ansible Automation Platform client (aap_client.py) and of  *)
(* the tool functions of the MCP server built on it (server.py).           *)
(*                                                                         *)
(* One call is modelled at a time: a caller either invokes one of the      *)
(* tool functions of server.py, or uses AAPClient directly (as the unit    *)
(* tests and the helper scripts do).  A call constructs a client, runs one *)
(* client method, whose requests go through the retry loop of              *)
(* _make_request or _make_text_request, and ends with a returned value or  *)
(* a raised exception.  Texts are modelled as strings, built the way the   *)
(* f-strings of the source build them.                                     *)
(***************************************************************************)
EXTENDS Integers, Sequences, FiniteSets, TLC

VARIABLES
    env,        \* the process environment (os.environ), the AAP_* variables
    pc,         \* position of the call: "idle", "attempt", "sleep", "done"
    call,       \* the call in progress: entry point, operation, arguments
    client,     \* the AAPClient of the call: its config and its httpx client
    req,        \* the request the retry loop is working on
    attempt,    \* loop variable of the retry loop
    outcomes,   \* upstream outcomes of the attempts of the current loop
    sleeps,     \* asyncio.sleep durations of the current loop, in order
    requests,   \* every HTTP request issued during the call, in order
    requesterCalls, \* the calls of _make_request / _make_text_request of
                \* the call, in order: the request, and how its loop ended
    loopResult, \* how the current retry loop ended, once it has
    acc,        \* get_inventories: inventories fetched so far and those left
    result,     \* what the client method returned or raised
    toolResult, \* what the tool function returned (tools only)
    earlierCalls, \* the number of methods already run on the client
    startupEnv, \* the process environment when the process started
    inflight    \* the tool calls the runtime multiplexes, by task

vars == <<env, pc, call, client, req, attempt, outcomes, sleeps, requests,
          requesterCalls, loopResult, acc, result, toolResult, earlierCalls,
          startupEnv, inflight>>

\* what one call leaves alone: the environment of the process and the other
\* tasks of the runtime
ambient == <<env, startupEnv, inflight>>

----------------------------------------------------------------------------
(* Bounds of the model.                                                    *)

\* largest max_retries a configuration of the model holds
MaxRetriesBound == 3

\* largest number of inventories an upstream inventories page holds
MaxInventories == 2

\* largest number of methods a caller runs on one client
MaxCallsOnClient == 2

----------------------------------------------------------------------------
(* Python values.                                                          *)

None == [py |-> "None"]

\* str() of a bool
PyBool(b) == IF b THEN "True" ELSE "False"

\* an exception: its class and str(e)
Exc(type, msg) == [type |-> type, msg |-> msg]

\* str.lstrip('/')
RECURSIVE lstrip(_)
lstrip(s) ==
    IF Len(s) > 0 /\ SubSeq(s, 1, 1) = "/"
    THEN lstrip(SubSeq(s, 2, Len(s)))
    ELSE s

\* str.startswith
StartsWith(s, prefix) ==
    /\ Len(s) >= Len(prefix)
    /\ SubSeq(s, 1, Len(prefix)) = prefix

\* 2**attempt
RECURSIVE Pow2(_)
Pow2(k) == IF k <= 0 THEN 1 ELSE 2 * Pow2(k - 1)

----------------------------------------------------------------------------
(* Configuration: AAPConfig and AAPClient.__init__.                        *)

Unset == "<unset>"

EnvNames == {"AAP_URL", "AAP_TOKEN", "AAP_PROJECT_ID", "AAP_VERIFY_SSL",
             "AAP_TIMEOUT", "AAP_MAX_RETRIES"}

\* os.getenv(name, default)
getenv(e, name, default) == IF e[name] = Unset THEN default ELSE e[name]

\* the integer literals the environments of the model use
IntLiterals ==
    [s \in {ToString(n) : n \in -1 .. MaxRetriesBound} \cup {"30", "60"} |->
        CHOOSE n \in (-1 .. MaxRetriesBound) \cup {30, 60} : ToString(n) = s]

\* int(s): the value, or ValueError
int(s) ==
    IF s \in DOMAIN IntLiterals
    THEN [ok |-> TRUE, value |-> IntLiterals[s]]
    ELSE [ok |-> FALSE,
          exc |-> Exc("ValueError",
                      "invalid literal for int() with base 10: '" \o s \o "'")]

\* str.lower() on the values AAP_VERIFY_SSL takes
lower(s) ==
    CASE s = "True"  -> "true"
      [] s = "TRUE"  -> "true"
      [] s = "False" -> "false"
      [] OTHER       -> s

AAPConfig(url, token, project_id, verify_ssl, timeout, max_retries) ==
    [url |-> url, token |-> token, project_id |-> project_id,
     verify_ssl |-> verify_ssl, timeout |-> timeout,
     max_retries |-> max_retries]

\* the defaults of the AAPConfig fields
DefaultVerifySsl == TRUE
DefaultTimeout == 30
DefaultMaxRetries == 3

\* the else branch of __init__: AAPConfig read from the environment
ConfigFromEnv(e) ==
    LET t == int(getenv(e, "AAP_TIMEOUT", "30"))
        m == int(getenv(e, "AAP_MAX_RETRIES", "3"))
    IN  IF ~t.ok THEN [ok |-> FALSE, exc |-> t.exc]
        ELSE IF ~m.ok THEN [ok |-> FALSE, exc |-> m.exc]
        ELSE [ok |-> TRUE,
              config |-> AAPConfig(
                  getenv(e, "AAP_URL", ""),
                  getenv(e, "AAP_TOKEN", ""),
                  getenv(e, "AAP_PROJECT_ID", ""),
                  lower(getenv(e, "AAP_VERIFY_SSL", "True")) = "true",
                  t.value,
                  m.value)]

NoConfig == [py |-> "None"]

NoClient == [built |-> FALSE]

\* variant: "and" in place of "or"
ConfigIsValid_And(config) == ~(config.url = "" /\ config.token = "")

\* the validation of __init__
ConfigIsValid(config) == ~(config.url = "" \/ config.token = "")

\* AAPClient.__init__(config): the constructed client, or the exception
AAPClient__init__(config, e) ==
    LET loaded == IF config # NoConfig
                  THEN [ok |-> TRUE, config |-> config]
                  ELSE ConfigFromEnv(e)
    IN  IF ~loaded.ok
        THEN [ok |-> FALSE, exc |-> loaded.exc, http |-> "none"]
        ELSE IF ~ConfigIsValid(loaded.config)
        THEN [ok |-> FALSE,
              exc |-> Exc("ValueError",
                          "AAP_URL and AAP_TOKEN must be configured"),
              http |-> "none"]
        ELSE [ok |-> TRUE,
              client |-> [built |-> TRUE,
                          config |-> loaded.config,
                          base_url |-> loaded.config.url,
                          authorization |-> "Bearer " \o loaded.config.token,
                          verify |-> loaded.config.verify_ssl,
                          timeout |-> loaded.config.timeout,
                          http |-> "open"]]

----------------------------------------------------------------------------
(* The upstream: what one HTTP attempt can come back with.                 *)
(*   [kind |-> "ok", code, text, json]   a 2xx response; json is the       *)
(*                                       decoded body, NotJson when the    *)
(*                                       body is not JSON                  *)
(*   [kind |-> "status", code, text]     a non-2xx response                *)
(*   [kind |-> "transport", msg]         no response: the transport failed *)

NotJson == [py |-> "JSONDecodeError"]

Ok(text, json) == [kind |-> "ok", code |-> 200, text |-> text, json |-> json]

StatusOutcomes ==
    {[kind |-> "status", code |-> 401, text |-> "denied"],
     [kind |-> "status", code |-> 404, text |-> "missing"]}

TransportOutcomes ==
    {[kind |-> "transport", msg |-> "timed out"],
     [kind |-> "transport", msg |-> "refused"]}

\* a 2xx response whose body is not JSON
GarbageOutcome == Ok("<html>", NotJson)

----------------------------------------------------------------------------
(* The generic requester: _make_request and _make_text_request.            *)
(* A retry loop is run one attempt at a time; each operator below gives    *)
(* what the loop body does at attempt k with the outcome o of its request: *)
(*   [kind |-> "return", value], [kind |-> "raise", exc] or                *)
(*   [kind |-> "sleep", delay].                                            *)

Return(v) == [kind |-> "return", value |-> v]
Raise(e) == [kind |-> "raise", exc |-> e]
Sleep(d) == [kind |-> "sleep", delay |-> d]

\* the url both requesters build from the endpoint
ApiUrl(endpoint) == "/api/controller/v2/" \o lstrip(endpoint)

\* variant: the loop has no last attempt
InRange_Unbounded(max_retries, k) == TRUE

\* variant: the range has one more element
InRange_OneMore(max_retries, k) == k <= max_retries

\* for attempt in range(max_retries): is there an attempt k
InRange(max_retries, k) == k < max_retries

\* variant: the comparison is off by one
IsLastAttempt_OffByOne(max_retries, k) == k = max_retries

\* attempt == self.config.max_retries - 1
IsLastAttempt(max_retries, k) == k = max_retries - 1

\* variant: a linear backoff
Backoff_Linear(k) == 2 * k

\* asyncio.sleep(2**attempt)
Backoff(k) == Pow2(k)

\* variant: the response body is left out
StatusErrorMessage_NoBody(code, body) ==
    "AAP API request failed: " \o ToString(code)

\* the message _make_request raises for a non-2xx response
StatusErrorMessage(code, body) ==
    "AAP API request failed: " \o ToString(code) \o " - " \o body

\* the message _make_text_request raises for a non-2xx response
TextStatusErrorMessage(code, body) ==
    "AAP API request failed: HTTP " \o ToString(code) \o " - " \o body

\* the message both raise for any other exception e, from str(e)
OtherErrorMessage(msg) == "AAP API request failed: " \o msg

JSONDecodeErrorMessage == "Expecting value: line 1 column 1 (char 0)"

\* the except branches: raise on the last attempt, sleep otherwise
RetryOrRaise(max_retries, k, message) ==
    IF IsLastAttempt(max_retries, k)
    THEN Raise(Exc("Exception", message))
    ELSE Sleep(Backoff(k))

\* the loop body of _make_request
_make_request(max_retries, k, o) ==
    CASE o.kind = "status" ->
            RetryOrRaise(max_retries, k, StatusErrorMessage(o.code, o.text))
      [] o.kind = "transport" ->
            RetryOrRaise(max_retries, k, OtherErrorMessage(o.msg))
      [] o.kind = "ok" ->
            IF o.json = NotJson
            THEN RetryOrRaise(max_retries, k,
                              OtherErrorMessage(JSONDecodeErrorMessage))
            ELSE Return(o.json)

\* variant: the text requester decodes the body as JSON
_make_text_request_Decoding(max_retries, k, o) ==
    _make_request(max_retries, k, o)

\* the loop body of _make_text_request
_make_text_request(max_retries, k, o) ==
    CASE o.kind = "status" ->
            RetryOrRaise(max_retries, k,
                         TextStatusErrorMessage(o.code, o.text))
      [] o.kind = "transport" ->
            RetryOrRaise(max_retries, k, OtherErrorMessage(o.msg))
      [] o.kind = "ok" -> Return(o.text)

\* what each requester returns when its loop ends without return or raise
_make_request_fallthrough == Return(None)

_make_text_request_fallthrough == Return("")

LoopBody(variant, max_retries, k, o) ==
    IF variant = "json"
    THEN _make_request(max_retries, k, o)
    ELSE _make_text_request(max_retries, k, o)

LoopFallthrough(variant) ==
    IF variant = "json"
    THEN _make_request_fallthrough
    ELSE _make_text_request_fallthrough

\* a request of a client method: the requester it goes through and what the
\* requester is given; resource and id name the upstream resource behind the
\* endpoint
Request(resource, id, variant, method, endpoint, params, json) ==
    [resource |-> resource, id |-> id, variant |-> variant, method |-> method,
     endpoint |-> endpoint, params |-> params, json |-> json]

NoRequest == [resource |-> "none"]

\* the HTTP request one attempt issues: self.client.request(method, url, ...)
HttpRequest(rq) ==
    [resource |-> rq.resource, method |-> rq.method,
     url |-> ApiUrl(rq.endpoint), params |-> rq.params, json |-> rq.json]

\* an absent keyword argument (params=, json=) and the empty dict
NoDict == <<>>

----------------------------------------------------------------------------
(* Upstream records.  A JSON object is a function from its keys; a key     *)
(* whose value is null is left out.  The extra_vars value of a template is *)
(* tagged with its JSON type, since upstream sends a string there.         *)

JsonStr(v) == [t |-> "str", v |-> v]
JsonDict(v) == [t |-> "dict", v |-> v]

TemplateDeploy ==
    [id |-> 1, name |-> "Deploy", description |-> "d", project |-> 5,
     playbook |-> "deploy.yml", survey_enabled |-> FALSE]

TemplateRestart ==
    [id |-> 2, name |-> "Restart", description |-> "", project |-> 5,
     playbook |-> "restart.yml", survey_enabled |-> TRUE,
     inventory |-> 3, credential |-> 4, extra_vars |-> JsonStr("")]

TemplatePatch ==
    [id |-> 3, name |-> "Patch", description |-> "p", project |-> 6,
     playbook |-> "patch.yml", inventory |-> 0,
     extra_vars |-> JsonDict([env |-> "prod"])]

TemplateLists ==
    {<<>>, <<TemplateDeploy>>, <<TemplateRestart, TemplateDeploy>>,
     <<TemplateDeploy, TemplateRestart, TemplatePatch>>}

LaunchRecord ==
    [job |-> 123, id |-> 456, type |-> "job", url |-> "/api/v2/jobs/123/"]

JobRecords ==
    {[id |-> 123, name |-> "Deploy", status |-> "running", failed |-> FALSE,
      job_template |-> 1, playbook |-> "deploy.yml"],
     [id |-> 123, name |-> "Deploy", status |-> "failed", failed |-> TRUE,
      elapsed |-> 12, job_template |-> 1, playbook |-> "deploy.yml",
      artifacts |-> "none"]}

JobLogs == {"PLAY [all] ok=1", ""}

InventoryData(i) ==
    IF i = 1
    THEN [id |-> 1, name |-> "inv1", description |-> "first"]
    ELSE [id |-> i, name |-> "inv" \o ToString(i)]

\* the inventories pages: up to MaxInventories inventories, in either order
InventoryLists ==
    {<<>>} \cup
    {[j \in 1 .. n |-> InventoryData(j)] : n \in 1 .. MaxInventories} \cup
    {[j \in 1 .. n |-> InventoryData(n + 1 - j)] : n \in 2 .. MaxInventories}

HostData(i, j) ==
    IF j = 1
    THEN [id |-> 10 * i + j, name |-> "host" \o ToString(10 * i + j),
          description |-> "web", enabled |-> FALSE]
    ELSE [id |-> 10 * i + j, name |-> "host" \o ToString(10 * i + j)]

\* the hosts pages of inventory i
HostLists(i) == {<<>>, <<HostData(i, 2), HostData(i, 1)>>}

OrganizationData(i) ==
    IF i = 1
    THEN [id |-> 1, name |-> "Default", description |-> "main"]
    ELSE [id |-> i, name |-> "org" \o ToString(i)]

OrganizationLists ==
    {<<>>, <<OrganizationData(1)>>, <<OrganizationData(2), OrganizationData(1)>>}

ProjectData(i) ==
    IF i = 1
    THEN [id |-> 1, name |-> "Playbooks", description |-> "repo",
          organization |-> 1, scm_type |-> "git",
          scm_url |-> "https://git/playbooks", scm_branch |-> "main"]
    ELSE [id |-> i, name |-> "proj" \o ToString(i)]

ProjectLists == {<<>>, <<ProjectData(1)>>, <<ProjectData(2), ProjectData(1)>>}

ResultsPage(items) == [count |-> Len(items), results |-> items]

\* the bodies upstream can answer a request with, when it answers 2xx
UpstreamBodies(rq) ==
    CASE rq.resource = "job_templates" ->
            {Ok("json", ResultsPage(ts)) : ts \in TemplateLists}
      [] rq.resource = "job_template" ->
            {Ok("json", t) : t \in {TemplateDeploy, TemplateRestart}}
      [] rq.resource = "launch" -> {Ok("json", LaunchRecord)}
      [] rq.resource = "job" -> {Ok("json", j) : j \in JobRecords}
      [] rq.resource = "stdout" -> {Ok(t, NotJson) : t \in JobLogs}
      [] rq.resource = "me" -> {Ok("json", ResultsPage(<<>>))}
      [] rq.resource = "inventories" ->
            {Ok("json", ResultsPage(is)) : is \in InventoryLists}
      [] rq.resource = "hosts" ->
            {Ok("json", ResultsPage(hs)) : hs \in HostLists(rq.id)}
      [] rq.resource = "organizations" ->
            {Ok("json", ResultsPage(os)) : os \in OrganizationLists}
      [] rq.resource = "projects" ->
            {Ok("json", ResultsPage(ps)) : ps \in ProjectLists}

\* everything one attempt of the request can come back with
Outcomes(rq) ==
    UpstreamBodies(rq) \cup StatusOutcomes \cup TransportOutcomes
        \cup (IF rq.variant = "json" THEN {GarbageOutcome} ELSE {})

----------------------------------------------------------------------------
(* The typed records (pydantic models).  An Optional field that is None is *)
(* left out of the record.                                                 *)

ValidationError(model, field) ==
    Exc("ValidationError",
        "1 validation error for " \o model \o "\n" \o field)

Restrict(f, keys) == [k \in (DOMAIN f) \cap keys |-> f[k]]

JobTemplateRequired == {"id", "name", "description", "project", "playbook"}

JobTemplateFields ==
    JobTemplateRequired \cup
        {"inventory", "credential", "extra_vars", "survey_enabled"}

\* JobTemplate(**data)
JobTemplate(data) ==
    IF \E k \in JobTemplateRequired : k \notin DOMAIN data
    THEN Raise(ValidationError("JobTemplate",
             CHOOSE k \in JobTemplateRequired : k \notin DOMAIN data))
    ELSE IF "extra_vars" \in DOMAIN data /\ data.extra_vars.t # "dict"
    THEN Raise(ValidationError("JobTemplate", "extra_vars"))
    ELSE Return([k \in ((DOMAIN data) \cap JobTemplateFields)
                        \cup {"survey_enabled"} |->
                    CASE k = "extra_vars" -> data.extra_vars.v
                      [] k = "survey_enabled" /\ k \notin DOMAIN data -> FALSE
                      [] OTHER -> data[k]])

JobLaunchRequired == {"job", "id", "type", "url"}

\* JobLaunch(**data)
JobLaunch(data) ==
    IF \E k \in JobLaunchRequired : k \notin DOMAIN data
    THEN Raise(ValidationError("JobLaunch",
             CHOOSE k \in JobLaunchRequired : k \notin DOMAIN data))
    ELSE Return(Restrict(data, JobLaunchRequired))

\* Host(id=..., name=..., description=data.get(...), enabled=data.get(..., True))
Host(data) ==
    [k \in ((DOMAIN data) \cap {"id", "name", "description"})
            \cup {"enabled"} |->
        IF k = "enabled" /\ k \notin DOMAIN data THEN TRUE ELSE data[k]]

\* variant: the hosts are embedded in reverse order
Inventory_HostsReversed(data, hosts) ==
    [k \in ((DOMAIN data) \cap {"id", "name", "description"})
            \cup {"hosts"} |->
        IF k = "hosts"
        THEN [j \in 1 .. Len(hosts) |-> hosts[Len(hosts) + 1 - j]]
        ELSE data[k]]

\* Inventory(id=..., name=..., description=data.get(...), hosts=hosts)
Inventory(data, hosts) ==
    [k \in ((DOMAIN data) \cap {"id", "name", "description"})
            \cup {"hosts"} |->
        IF k = "hosts" THEN hosts ELSE data[k]]

\* response.get("results", [])
GetResults(response) ==
    IF "results" \in DOMAIN response THEN response.results ELSE <<>>

NoneHasNoGet ==
    Exc("AttributeError", "'NoneType' object has no attribute 'get'")

NoneIsNoMapping(model) ==
    Exc("TypeError",
        model \o "() argument after ** must be a mapping, not NoneType")

\* Organization(**data) and Project(**data): id and name required
Organization(data) ==
    IF \E k \in {"id", "name"} : k \notin DOMAIN data
    THEN Raise(ValidationError("Organization",
             CHOOSE k \in {"id", "name"} : k \notin DOMAIN data))
    ELSE Return(Restrict(data, {"id", "name", "description"}))

Project(data) ==
    IF \E k \in {"id", "name"} : k \notin DOMAIN data
    THEN Raise(ValidationError("Project",
             CHOOSE k \in {"id", "name"} : k \notin DOMAIN data))
    ELSE Return(Restrict(data, {"id", "name", "description", "organization",
                                "scm_type", "scm_url", "scm_branch"}))

----------------------------------------------------------------------------
(* The client methods.  A method runs up to its first request             *)
(* (MethodStart), and is resumed with the result of each retry loop        *)
(* (MethodResume); both give                                               *)
(*   [kind |-> "request", req, acc]  the next request, and what the method *)
(*                                   holds in its local variables, or      *)
(*   Return(value) / Raise(exc)      how the method ends.                  *)

NextRequest(rq, a) == [kind |-> "request", req |-> rq, acc |-> a]

NoAcc == [todo |-> <<>>, done |-> <<>>]

PageSize == 200

\* params = {"page_size": 200}, plus the filter when the id is truthy
ListParams(args, arg, filter) ==
    IF arg \in DOMAIN args /\ args[arg] # 0
    THEN [k \in {"page_size", filter} |->
            IF k = "page_size" THEN PageSize ELSE args[arg]]
    ELSE [k \in {"page_size"} |-> PageSize]

\* the keyword parameters of AAPClient.launch_job_template
LaunchParameters == {"template_id", "extra_vars", "inventory", "credentials"}

UnexpectedKeyword(name) ==
    Exc("TypeError",
        "AAPClient.launch_job_template() got an unexpected keyword argument '"
            \o name \o "'")

\* if extra_vars: / if inventory: / if credentials:
Truthy(args, k) ==
    /\ k \in DOMAIN args
    /\ CASE k = "inventory" -> args[k] # 0
         [] OTHER -> args[k] # <<>>

\* variant: every key is set, an omitted argument to None
LaunchPayload_AllKeys(args) ==
    [k \in {"extra_vars", "inventory", "credentials"} |->
        IF k \in DOMAIN args THEN args[k] ELSE None]

\* the payload launch_job_template builds
LaunchPayload(args) ==
    [k \in {k \in {"extra_vars", "inventory", "credentials"} :
                Truthy(args, k)} |-> args[k]]

\* get_job_templates: an extra_vars of "" is set to None
NormalizeExtraVars(template_data) ==
    IF "extra_vars" \in DOMAIN template_data
       /\ template_data.extra_vars.t = "str"
       /\ template_data.extra_vars.v = ""
    THEN Restrict(template_data, (DOMAIN template_data) \ {"extra_vars"})
    ELSE template_data

\* apply a constructor to each element: the list, or the first exception
RECURSIVE BuildAll(_, _, _)
BuildAll(model, items, built) ==
    IF items = <<>> THEN Return(built)
    ELSE LET r == CASE model = "JobTemplate" ->
                        JobTemplate(NormalizeExtraVars(Head(items)))
                    [] model = "Organization" -> Organization(Head(items))
                    [] model = "Project" -> Project(Head(items))
         IN  IF r.kind = "raise" THEN r
             ELSE BuildAll(model, Tail(items), Append(built, r.value))

\* variant: the hosts of the first inventory are asked for every time
HostsRequest_First(inventory_data) ==
    Request("hosts", 1, "json", "GET", "inventories/1/hosts/",
            [k \in {"page_size"} |-> PageSize], NoDict)

\* the hosts request of one inventory of the page
HostsRequest(inventory_data) ==
    Request("hosts", inventory_data.id, "json", "GET",
            "inventories/" \o ToString(inventory_data.id) \o "/hosts/",
            [k \in {"page_size"} |-> PageSize], NoDict)

MethodStart(op, kwargs, args) ==
    CASE op = "get_job_templates" ->
            NextRequest(Request("job_templates", 0, "json", "GET",
                "job_templates/",
                ListParams(args, "project_id", "project"), NoDict), NoAcc)
      [] op = "get_job_template" ->
            NextRequest(Request("job_template", args.template_id, "json",
                "GET",
                "job_templates/" \o ToString(args.template_id) \o "/",
                NoDict, NoDict), NoAcc)
      [] op = "launch_job_template" ->
            IF \E k \in kwargs : k \notin LaunchParameters
            THEN Raise(UnexpectedKeyword(
                     CHOOSE k \in kwargs : k \notin LaunchParameters))
            ELSE NextRequest(Request("launch", args.template_id, "json",
                     "POST",
                     "job_templates/" \o ToString(args.template_id)
                         \o "/launch/",
                     NoDict, LaunchPayload(args)), NoAcc)
      [] op = "get_job_status" ->
            NextRequest(Request("job", args.job_id, "json", "GET",
                "jobs/" \o ToString(args.job_id) \o "/",
                NoDict, NoDict), NoAcc)
      [] op = "get_job_stdout" ->
            NextRequest(Request("stdout", args.job_id, "text", "GET",
                "jobs/" \o ToString(args.job_id) \o "/stdout/?format=txt",
                NoDict, NoDict), NoAcc)
      [] op = "test_connection" ->
            NextRequest(Request("me", 0, "json", "GET", "me/",
                NoDict, NoDict), NoAcc)
      [] op = "get_inventories" ->
            NextRequest(Request("inventories", 0, "json", "GET",
                "inventories/",
                ListParams(args, "organization_id", "organization"), NoDict),
                NoAcc)
      [] op = "get_organizations" ->
            NextRequest(Request("organizations", 0, "json", "GET",
                "organizations/", [k \in {"page_size"} |-> PageSize], NoDict),
                NoAcc)
      [] op = "get_projects" ->
            NextRequest(Request("projects", 0, "json", "GET", "projects/",
                ListParams(args, "organization_id", "organization"), NoDict),
                NoAcc)

\* get_inventories, resumed with the response of the request rq
get_inventories_resume(rq, a, response) ==
    IF response = None THEN Raise(NoneHasNoGet)
    ELSE IF rq.resource = "inventories"
    THEN IF GetResults(response) = <<>>
         THEN Return(<<>>)
         ELSE NextRequest(HostsRequest(Head(GetResults(response))),
                          [todo |-> GetResults(response), done |-> <<>>])
    ELSE LET hosts == [j \in 1 .. Len(GetResults(response)) |->
                          Host(GetResults(response)[j])]
             done == Append(a.done, Inventory(Head(a.todo), hosts))
             todo == Tail(a.todo)
         IN  IF todo = <<>>
             THEN Return(done)
             ELSE NextRequest(HostsRequest(Head(todo)),
                              [todo |-> todo, done |-> done])

\* variant: get_inventories returns the inventories fetched so far when a
\* request fails
MethodResume_PartialList(op, rq, a, lr) ==
    CASE op = "test_connection" ->
            IF lr.kind = "raise" THEN Return(FALSE) ELSE Return(TRUE)
      [] op = "get_inventories" /\ lr.kind = "raise" -> Return(a.done)
      [] op \notin {"test_connection", "get_inventories"}
            /\ lr.kind = "raise" -> lr
      [] op = "get_job_templates" /\ lr.kind = "return" ->
            IF lr.value = None THEN Raise(NoneHasNoGet)
            ELSE BuildAll("JobTemplate", GetResults(lr.value), <<>>)
      [] op = "get_job_template" /\ lr.kind = "return" ->
            IF lr.value = None THEN Raise(NoneIsNoMapping("JobTemplate"))
            ELSE JobTemplate(lr.value)
      [] op = "launch_job_template" /\ lr.kind = "return" ->
            IF lr.value = None THEN Raise(NoneIsNoMapping("JobLaunch"))
            ELSE JobLaunch(lr.value)
      [] op = "get_job_status" /\ lr.kind = "return" -> lr
      [] op = "get_job_stdout" /\ lr.kind = "return" -> lr
      [] op = "get_inventories" /\ lr.kind = "return" ->
            get_inventories_resume(rq, a, lr.value)
      [] op = "get_organizations" /\ lr.kind = "return" ->
            IF lr.value = None THEN Raise(NoneHasNoGet)
            ELSE BuildAll("Organization", GetResults(lr.value), <<>>)
      [] op = "get_projects" /\ lr.kind = "return" ->
            IF lr.value = None THEN Raise(NoneHasNoGet)
            ELSE BuildAll("Project", GetResults(lr.value), <<>>)

\* a method resumed with the result lr of the retry loop of its request rq
MethodResume(op, rq, a, lr) ==
    CASE op = "test_connection" ->
            IF lr.kind = "raise" THEN Return(FALSE) ELSE Return(TRUE)
      [] op # "test_connection" /\ lr.kind = "raise" -> lr
      [] op = "get_job_templates" /\ lr.kind = "return" ->
            IF lr.value = None THEN Raise(NoneHasNoGet)
            ELSE BuildAll("JobTemplate", GetResults(lr.value), <<>>)
      [] op = "get_job_template" /\ lr.kind = "return" ->
            IF lr.value = None THEN Raise(NoneIsNoMapping("JobTemplate"))
            ELSE JobTemplate(lr.value)
      [] op = "launch_job_template" /\ lr.kind = "return" ->
            IF lr.value = None THEN Raise(NoneIsNoMapping("JobLaunch"))
            ELSE JobLaunch(lr.value)
      [] op = "get_job_status" /\ lr.kind = "return" -> lr
      [] op = "get_job_stdout" /\ lr.kind = "return" -> lr
      [] op = "get_inventories" /\ lr.kind = "return" ->
            get_inventories_resume(rq, a, lr.value)
      [] op = "get_organizations" /\ lr.kind = "return" ->
            IF lr.value = None THEN Raise(NoneHasNoGet)
            ELSE BuildAll("Organization", GetResults(lr.value), <<>>)
      [] op = "get_projects" /\ lr.kind = "return" ->
            IF lr.value = None THEN Raise(NoneHasNoGet)
            ELSE BuildAll("Project", GetResults(lr.value), <<>>)

----------------------------------------------------------------------------
(* json.dumps(value, indent=2).  A JSON value is tagged with its type;     *)
(* a scalar carries its rendering, an object its (key, value) pairs in     *)
(* insertion order.                                                        *)

JNum(n) == [t |-> "scalar", s |-> ToString(n)]
JStr(v) == [t |-> "scalar", s |-> "\"" \o v \o "\""]
JBool(b) == [t |-> "scalar", s |-> IF b THEN "true" ELSE "false"]
JNull == [t |-> "scalar", s |-> "null"]
JList(items) == [t |-> "list", items |-> items]
JObj(pairs) == [t |-> "obj", items |-> pairs]
Pair(key, value) == [key |-> key, value |-> value]

RECURSIVE Indent(_)
Indent(level) == IF level <= 0 THEN "" ELSE "  " \o Indent(level - 1)

RECURSIVE dumps(_, _)
RECURSIVE dumps_items(_, _, _)
dumps(v, level) ==
    CASE v.t = "scalar" -> v.s
      [] v.t = "list" ->
            IF v.items = <<>> THEN "[]"
            ELSE "[\n" \o dumps_items(v.items, FALSE, level + 1)
                    \o "\n" \o Indent(level) \o "]"
      [] v.t = "obj" ->
            IF v.items = <<>> THEN "{}"
            ELSE "{\n" \o dumps_items(v.items, TRUE, level + 1)
                    \o "\n" \o Indent(level) \o "}"

dumps_items(items, keyed, level) ==
    LET first == Indent(level)
                 \o (IF keyed
                     THEN "\"" \o Head(items).key \o "\": "
                          \o dumps(Head(items).value, level)
                     ELSE dumps(Head(items), level))
    IN  IF Len(items) = 1 THEN first
        ELSE first \o ",\n" \o dumps_items(Tail(items), keyed, level)

\* "\n".join(lines)
RECURSIVE join(_)
join(lines) ==
    IF lines = <<>> THEN ""
    ELSE IF Len(lines) = 1 THEN Head(lines)
    ELSE Head(lines) \o "\n" \o join(Tail(lines))

\* the JSON value of field k of a record: null when the field is None
Field(rec, k) ==
    IF k \notin DOMAIN rec THEN JNull
    ELSE CASE k \in {"id", "project", "inventory", "credential", "elapsed",
                     "organization", "job_template"} -> JNum(rec[k])
           [] k \in {"survey_enabled", "failed", "enabled"} -> JBool(rec[k])
           [] OTHER -> JStr(rec[k])

\* the dict {k: rec.k for k in keys}, in the order of keys
Fields(rec, keys) == [j \in 1 .. Len(keys) |-> Pair(keys[j], Field(rec, keys[j]))]

\* description, or the fixed text when it is None or empty
DescriptionOr(rec) ==
    IF "description" \in DOMAIN rec /\ rec.description # ""
    THEN rec.description
    ELSE "No description provided"

\* if template.inventory: and the like, for an Optional[int] field
TruthyInt(rec, k) == k \in DOMAIN rec /\ rec[k] # 0

\* for an Optional[str] field
TruthyStr(rec, k) == k \in DOMAIN rec /\ rec[k] # ""

\* f"{x}" of an Optional[str] field
StrOrNone(rec, k) == IF k \in DOMAIN rec THEN rec[k] ELSE "None"

\* the Markdown code fence (three backquotes in the source; a TLA+ string
\* cannot hold a backquote)
Fence == "~~~"

\* the text that follows the detail blocks of every listing
JsonTrailer(list) ==
    "\n\n---\n\nJSON Data:\n" \o Fence \o "json\n"
        \o dumps(JList(list), 0) \o "\n" \o Fence

\* variant: the plural noun whatever the count
Plural_Always(n, one, many) == many

\* the noun of a header: singular for one item, plural otherwise
Plural(n, one, many) == IF n # 1 THEN many ELSE one

----------------------------------------------------------------------------
(* The tool functions of server.py.  The emoji of the detail lines are     *)
(* written as names in angle brackets.                                     *)

Tools ==
    {"get_job_templates", "launch_job_template", "get_job_status",
     "get_job_output", "test_aap_connection", "get_host_inventories",
     "get_organizations", "get_projects"}

\* the client method each tool calls
ToolMethod(tool) ==
    CASE tool = "get_job_output" -> "get_job_stdout"
      [] tool = "test_aap_connection" -> "test_connection"
      [] tool = "get_host_inventories" -> "get_inventories"
      [] OTHER -> tool

\* the keyword arguments the tool passes to the client method
ToolKwargs(tool) ==
    IF tool = "launch_job_template"
    THEN {"template_id", "extra_vars", "inventory", "credentials", "limit"}
    ELSE {}

\* the detail block and the JSON object of template number i
template_detail(i, template) ==
    "**" \o ToString(i) \o ". " \o template.name
        \o "** (ID: " \o ToString(template.id) \o ")\n"
    \o "   <clipboard> Description: " \o DescriptionOr(template) \o "\n"
    \o "   <book> Playbook: " \o template.playbook \o "\n"
    \o "   <folder> Project: " \o ToString(template.project) \o "\n"
    \o (IF TruthyInt(template, "inventory")
        THEN "   <dividers>  Inventory: " \o ToString(template.inventory)
                 \o "\n"
        ELSE "")
    \o (IF TruthyInt(template, "credential")
        THEN "   <key> Credential: " \o ToString(template.credential) \o "\n"
        ELSE "")
    \o "   <memo> Survey Enabled: "
        \o (IF template.survey_enabled THEN "Yes" ELSE "No") \o "\n"

template_info(template) ==
    JObj(Fields(template, <<"id", "name", "description", "playbook",
                            "project", "survey_enabled">>)
         \o (IF TruthyInt(template, "inventory")
             THEN Fields(template, <<"inventory">>) ELSE <<>>)
         \o (IF TruthyInt(template, "credential")
             THEN Fields(template, <<"credential">>) ELSE <<>>))

\* variant: an empty list is formatted like any other
format_job_templates_NoEmptyCase(templates) ==
    "Found " \o ToString(Len(templates)) \o " job template"
        \o Plural(Len(templates), "", "s") \o ":\n\n"
    \o join([i \in 1 .. Len(templates) |->
                template_detail(i, templates[i])])
    \o JsonTrailer([i \in 1 .. Len(templates) |->
                        template_info(templates[i])])

\* the text of the get_job_templates tool
format_job_templates(templates) ==
    IF templates = <<>>
    THEN "No job templates found in the specified project."
    ELSE "Found " \o ToString(Len(templates)) \o " job template"
            \o Plural(Len(templates), "", "s") \o ":\n\n"
         \o join([i \in 1 .. Len(templates) |->
                    template_detail(i, templates[i])])
         \o JsonTrailer([i \in 1 .. Len(templates) |->
                            template_info(templates[i])])

format_launch(launch_result) ==
    "Job launched successfully!\n\n"
    \o "Job ID: " \o ToString(launch_result.job) \o "\n"
    \o "Launch ID: " \o ToString(launch_result.id) \o "\n"
    \o "URL: " \o launch_result.url \o "\n"
    \o "Type: " \o launch_result.type \o "\n\n"
    \o "Use get_job_status to check the job progress."

StatusKeys ==
    <<"id", "name", "status", "failed", "started", "finished", "elapsed",
      "job_template", "playbook">>

format_job_status(job_status) ==
    "Job Status:\n\n" \o dumps(JObj(Fields(job_status, StatusKeys)), 0)

format_job_output(job_id, job_output) ==
    "Job Output (Job ID: " \o ToString(job_id) \o "):\n\n" \o Fence \o "\n"
        \o job_output \o "\n" \o Fence

format_connection(connection_ok, config) ==
    "AAP Connection Test: "
        \o (IF connection_ok THEN "<check> SUCCESS" ELSE "<cross> FAILED")
        \o "\n\n"
    \o "URL: " \o config.url \o "\n"
    \o "Project ID: " \o config.project_id \o "\n"
    \o "SSL Verification: " \o PyBool(config.verify_ssl)

\* format_inventories of aap_client.py
host_lines(j, host) ==
    "   - Host " \o ToString(j) \o ": " \o host.name \o "\n"
    \o "              Description : " \o StrOrNone(host, "description") \o "\n"
    \o "              Enabled     : "
        \o (IF host.enabled THEN "Yes" ELSE "No") \o "\n"

RECURSIVE concat(_)
concat(parts) ==
    IF parts = <<>> THEN "" ELSE Head(parts) \o concat(Tail(parts))

inventory_detail(i, inventory) ==
    "**" \o ToString(i) \o ". " \o inventory.name
        \o "** (ID: " \o ToString(inventory.id) \o ")\n"
    \o "   <clipboard> Description: " \o DescriptionOr(inventory) \o "\n"
    \o concat([j \in 1 .. Len(inventory.hosts) |->
                  host_lines(j, inventory.hosts[j])])

inventory_info(inventory) ==
    JObj(Fields(inventory, <<"id", "name", "description">>)
         \o <<Pair("hosts",
                   JList([j \in 1 .. Len(inventory.hosts) |->
                            JObj(Fields(inventory.hosts[j],
                                 <<"name", "description", "enabled">>))]))>>)

format_inventories(inventories) ==
    IF inventories = <<>>
    THEN "No inventories found in the specific organization."
    ELSE "Found " \o ToString(Len(inventories)) \o " inventor"
            \o Plural(Len(inventories), "y", "ies") \o ":\n\n"
         \o join([i \in 1 .. Len(inventories) |->
                    inventory_detail(i, inventories[i])])
         \o JsonTrailer([i \in 1 .. Len(inventories) |->
                            inventory_info(inventories[i])])

org_detail(i, org) ==
    "**" \o ToString(i) \o ". " \o org.name
        \o "** (ID: " \o ToString(org.id) \o ")\n"
    \o "   <clipboard> Description: " \o DescriptionOr(org) \o "\n"

format_organizations(organizations) ==
    IF organizations = <<>>
    THEN "No organizations found."
    ELSE "Found " \o ToString(Len(organizations)) \o " organization"
            \o Plural(Len(organizations), "", "s") \o ":\n\n"
         \o join([i \in 1 .. Len(organizations) |->
                    org_detail(i, organizations[i])])
         \o JsonTrailer([i \in 1 .. Len(organizations) |->
                JObj(Fields(organizations[i],
                            <<"id", "name", "description">>))])

project_detail(i, project) ==
    "**" \o ToString(i) \o ". " \o project.name
        \o "** (ID: " \o ToString(project.id) \o ")\n"
    \o "   <clipboard> Description: " \o DescriptionOr(project) \o "\n"
    \o (IF TruthyInt(project, "organization")
        THEN "   <office> Organization ID: "
                 \o ToString(project.organization) \o "\n"
        ELSE "")
    \o (IF TruthyStr(project, "scm_type")
        THEN "   <wrench> SCM Type: " \o project.scm_type \o "\n" ELSE "")
    \o (IF TruthyStr(project, "scm_url")
        THEN "   <link> SCM URL: " \o project.scm_url \o "\n" ELSE "")
    \o (IF TruthyStr(project, "scm_branch")
        THEN "   <herb> SCM Branch: " \o project.scm_branch \o "\n" ELSE "")

format_projects(projects) ==
    IF projects = <<>>
    THEN "No projects found."
    ELSE "Found " \o ToString(Len(projects)) \o " project"
            \o Plural(Len(projects), "", "s") \o ":\n\n"
         \o join([i \in 1 .. Len(projects) |->
                    project_detail(i, projects[i])])
         \o JsonTrailer([i \in 1 .. Len(projects) |->
                JObj(Fields(projects[i],
                            <<"id", "name", "description", "organization",
                              "scm_type", "scm_url", "scm_branch">>))])

\* the body of the tool after the client method has returned value
ToolFormat(tool, args, config, value) ==
    CASE tool = "get_job_templates" -> Return(format_job_templates(value))
      [] tool = "launch_job_template" -> Return(format_launch(value))
      [] tool = "get_job_status" ->
            IF value = None THEN Raise(NoneHasNoGet)
            ELSE Return(format_job_status(value))
      [] tool = "get_job_output" ->
            Return(format_job_output(args.job_id, value))
      [] tool = "test_aap_connection" ->
            Return(format_connection(value, config))
      [] tool = "get_host_inventories" -> Return(format_inventories(value))
      [] tool = "get_organizations" -> Return(format_organizations(value))
      [] tool = "get_projects" -> Return(format_projects(value))

\* variant: no except clause
tool_boundary_NoCatch(r) == r

\* variant: the message is returned without the prefix
tool_boundary_NoPrefix(r) ==
    IF r.kind = "raise" THEN Return(r.exc.msg) ELSE r

\* except Exception as e: return f"Error: {str(e)}"
tool_boundary(r) ==
    IF r.kind = "raise" THEN Return("Error: " \o r.exc.msg) ELSE r

\* the tool, given how the construction of the client or its method ended
ToolResult(tool, args, config, r) ==
    tool_boundary(IF r.kind = "raise" THEN r
                  ELSE ToolFormat(tool, args, config, r.value))

----------------------------------------------------------------------------
(* The inputs: environments, explicit configurations and calls.            *)

Url == "https://aap.example.com"
Token == "secret"

NoEnv == [n \in EnvNames |-> Unset]

FullEnv ==
    [AAP_URL |-> Url, AAP_TOKEN |-> Token, AAP_PROJECT_ID |-> "123",
     AAP_VERIFY_SSL |-> "False", AAP_TIMEOUT |-> "60",
     AAP_MAX_RETRIES |-> "1"]

Envs ==
    {NoEnv,
     [NoEnv EXCEPT !.AAP_URL = Url, !.AAP_TOKEN = Token],
     [NoEnv EXCEPT !.AAP_URL = Url],
     [NoEnv EXCEPT !.AAP_TOKEN = Token, !.AAP_MAX_RETRIES = "junk"],
     [FullEnv EXCEPT !.AAP_URL = ""],
     [FullEnv EXCEPT !.AAP_TOKEN = ""],
     [FullEnv EXCEPT !.AAP_VERIFY_SSL = "TRUE", !.AAP_PROJECT_ID = Unset],
     [FullEnv EXCEPT !.AAP_VERIFY_SSL = "yes", !.AAP_TIMEOUT = "30"],
     [FullEnv EXCEPT !.AAP_TIMEOUT = "soon"]}
    \cup {[FullEnv EXCEPT !.AAP_MAX_RETRIES = ToString(n)] :
            n \in -1 .. MaxRetriesBound}

\* the configurations the callers of the model build themselves: the one of
\* the unit tests (defaults for the last three fields), one that sets every
\* field, and incomplete ones
ExplicitConfigs ==
    {AAPConfig(Url, Token, "123", DefaultVerifySsl, DefaultTimeout,
               DefaultMaxRetries),
     AAPConfig("https://other.example.com", "other", "", FALSE, 60, 2),
     AAPConfig("", Token, "123", DefaultVerifySsl, DefaultTimeout,
               DefaultMaxRetries),
     AAPConfig(Url, "", "123", DefaultVerifySsl, DefaultTimeout,
               DefaultMaxRetries),
     AAPConfig("", "", "", FALSE, 60, 1)}

\* the environments in which the model's callers pass a configuration of
\* their own
ExplicitEnvs == {NoEnv, FullEnv}

Optional(name, values) == {<<>>} \cup {name :> v : v \in values}

\* the arguments of a launch: each optional argument omitted or supplied,
\* and the supplied values that are falsy in Python
LaunchArgs ==
    {("template_id" :> 1) @@ e @@ i @@ c @@ l :
        e \in Optional("extra_vars", {[env |-> "prod"]}),
        i \in Optional("inventory", {3}),
        c \in Optional("credentials", {<<4, 5>>}),
        l \in Optional("limit", {"webservers"})}
    \cup {("template_id" :> 1) @@ x :
            x \in {"extra_vars" :> <<>>, "inventory" :> 0,
                   "credentials" :> <<>>,
                   ("inventory" :> 0) @@ ("credentials" :> <<4, 5>>)}}

\* the arguments a caller can give each client method
MethodArgs(op) ==
    CASE op = "get_job_templates" -> Optional("project_id", {5})
      [] op = "get_job_template" -> {"template_id" :> 1}
      [] op = "launch_job_template" -> LaunchArgs
      [] op \in {"get_job_status", "get_job_stdout"} -> {"job_id" :> 123}
      [] op \in {"get_inventories", "get_projects"} ->
            Optional("organization_id", {1})
      [] OTHER -> {<<>>}

Methods ==
    {"get_job_templates", "get_job_template", "launch_job_template",
     "get_job_status", "get_job_stdout", "test_connection",
     "get_inventories", "get_organizations", "get_projects"}

\* a call: of a tool, which builds its client from the environment and
\* passes keyword arguments of its own, or a direct use of the client:
\* AAPClient(config), then one method inside "async with client"
Call(via, tool, m, config, a) ==
    [via |-> via, tool |-> tool, op |-> m, config |-> config,
     kwargs |-> IF via = "tool" THEN ToolKwargs(tool) ELSE DOMAIN a,
     args |-> a]

NoCall == [via |-> "none"]

Pending == [kind |-> "pending"]

----------------------------------------------------------------------------
(* The state machine.                                                      *)

Init ==
    /\ env \in Envs
    /\ pc = "idle"
    /\ call = NoCall
    /\ client = NoClient
    /\ req = NoRequest
    /\ attempt = 0
    /\ outcomes = <<>>
    /\ sleeps = <<>>
    /\ requests = <<>>
    /\ requesterCalls = <<>>
    /\ loopResult = Pending
    /\ acc = NoAcc
    /\ result = Pending
    /\ toolResult = Pending
    /\ earlierCalls = 0
    /\ startupEnv = env
    /\ inflight = <<>>

\* variant: __aexit__ leaves the session open
Closed_Leak(cl) == cl

\* __aexit__: await self.client.aclose()
Closed(cl) == IF cl.built THEN [cl EXCEPT !.http = "closed"] ELSE cl

\* the call c ends: its method, or the construction of its client, ended
\* with r.  A tool formats its text, and its "async with" block is left, by
\* the return or by the exception: the client is closed.  A caller of the
\* client itself stays in its block when the method returned.
Finish(c, cl, r) ==
    /\ pc' = "done"
    /\ result' = r
    /\ client' = IF c.via = "client" /\ r.kind = "return"
                 THEN cl
                 ELSE Closed(cl)
    /\ toolResult' = IF c.via = "tool"
                     THEN ToolResult(c.tool, c.args,
                                     IF cl.built THEN cl.config ELSE NoConfig,
                                     r)
                     ELSE Pending

\* one call of the requester: the request it was given and what it returned
\* or raised, Pending while its loop runs
RequesterCall(rq, r) == [req |-> rq, result |-> r]

\* the requester call in progress ends with r
EndLoop(calls, r) == [calls EXCEPT ![Len(calls)].result = r]

\* variant: the loop variable is kept from the loop before
StartLoop_KeepsAttempt(calls, rq, a) ==
    /\ pc' = "attempt"
    /\ req' = rq
    /\ acc' = a
    /\ attempt' = attempt
    /\ outcomes' = <<>>
    /\ sleeps' = <<>>
    /\ loopResult' = Pending
    /\ requesterCalls' = Append(calls, RequesterCall(rq, Pending))

\* the method of the call, which has made the requester calls so far,
\* starts the retry loop of the request rq
StartLoop(calls, rq, a) ==
    /\ pc' = "attempt"
    /\ req' = rq
    /\ acc' = a
    /\ attempt' = 0
    /\ outcomes' = <<>>
    /\ sleeps' = <<>>
    /\ loopResult' = Pending
    /\ requesterCalls' = Append(calls, RequesterCall(rq, Pending))

\* a call begins: the client is constructed and the method runs up to its
\* first request
Begin(via, tool, method, config, a) ==
    /\ pc = "idle"
    /\ requests' = <<>>
    /\ LET c == Call(via, tool, method, config, a)
           init == AAPClient__init__(c.config, env)
       IN  /\ call' = c
           /\ IF ~init.ok
              THEN /\ Finish(c, NoClient, Raise(init.exc))
                   /\ UNCHANGED <<req, acc, attempt, outcomes, sleeps,
                                  loopResult, requesterCalls>>
              ELSE LET m == MethodStart(c.op, c.kwargs, c.args)
                   IN  IF m.kind = "request"
                       THEN /\ StartLoop(<<>>, m.req, m.acc)
                            /\ client' = init.client
                            /\ UNCHANGED <<result, toolResult>>
                       ELSE /\ Finish(c, init.client, m)
                            /\ UNCHANGED <<req, acc, attempt, outcomes,
                                           sleeps, loopResult,
                                           requesterCalls>>
    /\ earlierCalls' = 0
    /\ UNCHANGED ambient

\* a tool is called with arguments of its schema
CallTool ==
    \E t \in Tools : \E a \in MethodArgs(ToolMethod(t)) :
        /\ pc = "idle"
        /\ Begin("tool", t, ToolMethod(t), NoConfig, a)

\* a caller uses the client itself, with a configuration of its own or
\* without one, and with arguments the method has parameters for
UseClient ==
    \E m \in Methods : \E a \in MethodArgs(m) :
        \E c \in (IF env \in ExplicitEnvs THEN ExplicitConfigs ELSE {})
                    \cup {NoConfig} :
            /\ pc = "idle"
            /\ m = "launch_job_template" => DOMAIN a \subseteq LaunchParameters
            /\ Begin("client", "none", m, c, a)

\* one pass of the loop body: the request is issued, upstream answers, and
\* the body returns, raises or goes to sleep
Attempt ==
    /\ pc = "attempt"
    /\ InRange(client.config.max_retries, attempt)
    /\ \E o \in Outcomes(req) :
        LET step == LoopBody(req.variant, client.config.max_retries,
                             attempt, o)
        IN  /\ requests' = Append(requests, HttpRequest(req))
            /\ outcomes' = Append(outcomes, o)
            /\ IF step.kind = "sleep"
               THEN /\ sleeps' = Append(sleeps, step.delay)
                    /\ pc' = "sleep"
                    /\ UNCHANGED <<loopResult, requesterCalls>>
               ELSE /\ loopResult' = step
                    /\ requesterCalls' = EndLoop(requesterCalls, step)
                    /\ pc' = "resume"
                    /\ UNCHANGED sleeps
    /\ UNCHANGED <<ambient, earlierCalls, call, client, req, attempt, acc,
                   result, toolResult>>

\* the sleep is over: the loop goes to its next pass
Wake ==
    /\ pc = "sleep"
    /\ attempt' = attempt + 1
    /\ pc' = "attempt"
    /\ UNCHANGED <<ambient, earlierCalls, call, client, req, outcomes,
                   sleeps, requests,
                   requesterCalls, loopResult, acc, result, toolResult>>

\* range(max_retries) is used up: the code after the loop runs
Exhausted ==
    /\ pc = "attempt"
    /\ ~InRange(client.config.max_retries, attempt)
    /\ loopResult' = LoopFallthrough(req.variant)
    /\ requesterCalls' = EndLoop(requesterCalls, LoopFallthrough(req.variant))
    /\ pc' = "resume"
    /\ UNCHANGED <<ambient, earlierCalls, call, client, req, attempt,
                   outcomes, sleeps,
                   requests, acc, result, toolResult>>

\* the method goes on with the result of its retry loop
Resume ==
    /\ pc = "resume"
    /\ LET m == MethodResume(call.op, req, acc, loopResult)
       IN  IF m.kind = "request"
           THEN /\ StartLoop(requesterCalls, m.req, m.acc)
                /\ UNCHANGED <<client, result, toolResult>>
           ELSE /\ Finish(call, client, m)
                /\ UNCHANGED <<req, acc, attempt, outcomes, sleeps,
                               loopResult, requesterCalls>>
    /\ UNCHANGED <<ambient, earlierCalls, call, requests>>

\* the methods a caller runs on a client it has already used
SessionMethods == {"test_connection", "get_job_templates", "get_job_status"}

\* a caller of the client itself, still inside "async with client", runs one
\* more method on it
Again ==
    \E m \in SessionMethods : \E a \in MethodArgs(m) :
        /\ pc = "done"
        /\ call.via = "client"
        /\ client.built
        /\ result.kind = "return"
        /\ earlierCalls + 1 < MaxCallsOnClient
        /\ earlierCalls' = earlierCalls + 1
        /\ call' = Call("client", "none", m, call.config, a)
        /\ requests' = <<>>
        /\ result' = Pending
        /\ LET ms == MethodStart(m, DOMAIN a, a)
           IN  StartLoop(<<>>, ms.req, ms.acc)
        /\ UNCHANGED <<ambient, client, toolResult>>

\* the caller has its result and leaves its block; the next call can begin
Done ==
    /\ pc = "done"
    /\ pc' = "idle"
    /\ call' = NoCall
    /\ client' = NoClient
    /\ req' = NoRequest
    /\ attempt' = 0
    /\ outcomes' = <<>>
    /\ sleeps' = <<>>
    /\ requests' = <<>>
    /\ requesterCalls' = <<>>
    /\ loopResult' = Pending
    /\ acc' = NoAcc
    /\ result' = Pending
    /\ toolResult' = Pending
    /\ earlierCalls' = 0
    /\ UNCHANGED ambient

Next ==
    \/ CallTool
    \/ UseClient
    \/ Attempt
    \/ Wake
    \/ Exhausted
    \/ Resume
    \/ Again
    \/ Done

Spec == Init /\ [][Next]_vars

\* the tool calls the runtime has in flight at once, at most
MaxInFlight == 2

\* the environments and the tools of the runs with calls in flight at once
ConcurrentEnvs ==
    {[FullEnv EXCEPT !.AAP_MAX_RETRIES = "2"],
     [FullEnv EXCEPT !.AAP_MAX_RETRIES = "0"]}

ConcurrentTools ==
    {"get_job_templates", "get_job_status", "test_aap_connection",
     "get_job_output"}

ConcurrentInit == Init /\ env \in ConcurrentEnvs

\* the coroutine of the running call: its local variables and the client of
\* its "async with" block
Frame ==
    [pc |-> pc, call |-> call, client |-> client, req |-> req,
     attempt |-> attempt, outcomes |-> outcomes, sleeps |-> sleeps,
     requests |-> requests, requesterCalls |-> requesterCalls,
     loopResult |-> loopResult, acc |-> acc, result |-> result,
     toolResult |-> toolResult]

\* the runtime starts a tool call while the event loop is free
CallConcurrently ==
    \E t \in ConcurrentTools : \E a \in MethodArgs(ToolMethod(t)) :
        /\ pc = "idle"
        /\ Len(inflight) < MaxInFlight
        /\ Begin("tool", t, ToolMethod(t), NoConfig, a)

\* the running call awaits its HTTP response or its asyncio.sleep: its
\* coroutine is suspended and the event loop is free
Yield ==
    /\ pc \in {"attempt", "sleep"}
    /\ inflight' = Append(inflight, Frame)
    /\ pc' = "idle"
    /\ call' = NoCall
    /\ client' = NoClient
    /\ req' = NoRequest
    /\ attempt' = 0
    /\ outcomes' = <<>>
    /\ sleeps' = <<>>
    /\ requests' = <<>>
    /\ requesterCalls' = <<>>
    /\ loopResult' = Pending
    /\ acc' = NoAcc
    /\ result' = Pending
    /\ toolResult' = Pending
    /\ UNCHANGED <<env, startupEnv, earlierCalls>>

\* the suspended coroutines but number i
Others(i) ==
    [j \in 1 .. Len(inflight) - 1 |->
        IF j < i THEN inflight[j] ELSE inflight[j + 1]]

\* variant: the attempt counter is one for all calls
Schedule_SharedAttempt ==
    \E i \in 1 .. Len(inflight) :
        /\ pc = "idle"
        /\ inflight' = Others(i)
        /\ pc' = inflight[i].pc
        /\ call' = inflight[i].call
        /\ client' = inflight[i].client
        /\ req' = inflight[i].req
        /\ attempt' = attempt
        /\ outcomes' = inflight[i].outcomes
        /\ sleeps' = inflight[i].sleeps
        /\ requests' = inflight[i].requests
        /\ requesterCalls' = inflight[i].requesterCalls
        /\ loopResult' = inflight[i].loopResult
        /\ acc' = inflight[i].acc
        /\ result' = inflight[i].result
        /\ toolResult' = inflight[i].toolResult
        /\ UNCHANGED <<env, startupEnv, earlierCalls>>

\* the event loop runs a suspended coroutine again, with the local variables
\* and the client it was suspended with
Schedule ==
    \E i \in 1 .. Len(inflight) :
        /\ pc = "idle"
        /\ inflight' = Others(i)
        /\ pc' = inflight[i].pc
        /\ call' = inflight[i].call
        /\ client' = inflight[i].client
        /\ req' = inflight[i].req
        /\ attempt' = inflight[i].attempt
        /\ outcomes' = inflight[i].outcomes
        /\ sleeps' = inflight[i].sleeps
        /\ requests' = inflight[i].requests
        /\ requesterCalls' = inflight[i].requesterCalls
        /\ loopResult' = inflight[i].loopResult
        /\ acc' = inflight[i].acc
        /\ result' = inflight[i].result
        /\ toolResult' = inflight[i].toolResult
        /\ UNCHANGED <<env, startupEnv, earlierCalls>>

\* tool calls multiplexed by one event loop
ConcurrentNext ==
    \/ CallConcurrently
    \/ Yield
    \/ Schedule
    \/ Attempt
    \/ Wake
    \/ Exhausted
    \/ Resume
    \/ Done

SpecConcurrent == ConcurrentInit /\ [][ConcurrentNext]_vars

\* the environments of a process whose environment is rewritten while it
\* runs
ProcessEnvs ==
    {FullEnv,
     [FullEnv EXCEPT !.AAP_MAX_RETRIES = "2"],
     [FullEnv EXCEPT !.AAP_MAX_RETRIES = "0"],
     [FullEnv EXCEPT !.AAP_VERIFY_SSL = "yes", !.AAP_TIMEOUT = "30"]}

ProcessInit == Init /\ env \in ProcessEnvs

\* os.environ is rewritten between two calls; what the process started with
\* stays on record
EnvChange ==
    \E e \in ProcessEnvs :
        /\ pc = "idle"
        /\ e # env
        /\ env' = e
        /\ UNCHANGED <<startupEnv, inflight, pc, call, client, req, attempt,
                       outcomes, sleeps, requests, requesterCalls,
                       loopResult, acc, result, toolResult, earlierCalls>>

\* the tool calls of one process, and the changes of its environment
ProcessNext ==
    \/ CallTool
    \/ Attempt
    \/ Wake
    \/ Exhausted
    \/ Resume
    \/ Done
    \/ EnvChange

SpecProcess == ProcessInit /\ [][ProcessNext]_vars

\* the environments of the runs whose progress is followed
LiveEnvs ==
    {NoEnv} \cup {[FullEnv EXCEPT !.AAP_MAX_RETRIES = ToString(n)] :
                    n \in {-1, 0, 2}}

LiveInit == Init /\ env \in LiveEnvs

\* the event loop runs every coroutine that can run: an attempt whose
\* request is under way completes or times out, a sleep ends, and the code
\* that follows an await runs
LiveSpec ==
    /\ LiveInit
    /\ [][Next]_vars
    /\ WF_vars(Attempt)
    /\ WF_vars(Wake)
    /\ WF_vars(Exhausted)
    /\ WF_vars(Resume)

----------------------------------------------------------------------------
TypeOK ==
    /\ pc \in {"idle", "attempt", "sleep", "resume", "done"}
    /\ attempt \in 0 .. MaxRetriesBound
    /\ Len(sleeps) <= Len(outcomes)

----------------------------------------------------------------------------
(* Vocabulary of the properties.                                           *)

Last(seq) == seq[Len(seq)]

\* s has sub as a substring
Contains(s, sub) ==
    \E i \in 1 .. (Len(s) - Len(sub) + 1) : SubSeq(s, i, i + Len(sub) - 1) = sub

EndsWith(s, suffix) ==
    /\ Len(s) >= Len(suffix)
    /\ SubSeq(s, Len(s) - Len(suffix) + 1, Len(s)) = suffix

\* the retry loop of the current request has ended
LoopEnded == loopResult.kind # "pending"

\* the attempt got a non-2xx response or failed at transport level
AttemptFailed(o) == o.kind \in {"status", "transport"}

\* the attempt got a 2xx response whose body the requester could decode
AttemptSucceeded(variant, o) ==
    /\ o.kind = "ok"
    /\ variant = "json" => o.json # NotJson

AllFailed == \A i \in 1 .. Len(outcomes) : AttemptFailed(outcomes[i])

\* the text an upstream failure carries
FailureText(o) ==
    CASE o.kind = "status" -> o.text
      [] o.kind = "transport" -> o.msg
      [] OTHER -> JSONDecodeErrorMessage

ToolDone == pc = "done" /\ call.via = "tool"

IsLaunchRequest(r) == r.resource = "launch"

LaunchOptional == {"extra_vars", "inventory", "credentials", "limit"}

----------------------------------------------------------------------------
(* Properties of the generic requester.                                    *)

\* C1: with max_retries >= 1 and every attempt failing (non-2xx or
\* transport failure), one call of the requester, JSON or text variant,
\* issues exactly max_retries requests and then raises; with max_retries = 1
\* it issues one request and never sleeps.  No call issues more than
\* max_retries requests.
C1_ExactlyMaxRetries ==
    /\ client.built /\ client.config.max_retries >= 0
            => Len(outcomes) <= client.config.max_retries
    /\ (LoopEnded /\ client.config.max_retries >= 1 /\ AllFailed) =>
            /\ Len(outcomes) = client.config.max_retries
            /\ loopResult.kind = "raise"
            /\ call.op # "get_inventories"
                    => Len(requests) = client.config.max_retries
            /\ client.config.max_retries = 1 => sleeps = <<>>

C1_Witness ==
    /\ LoopEnded
    /\ AllFailed
    /\ req.variant = "text"
    /\ client.config.max_retries >= 2
    /\ Len(requests) = client.config.max_retries
    /\ loopResult.kind = "raise"

\* C2: a backoff sleep happens only after a failed attempt that is not the
\* last one; the sleep after failed attempt k (from 0) lasts 2^k; no sleep
\* follows the final attempt or a successful one; a call that fails
\* throughout sleeps 1, 2, 4, ..., 2^(max_retries-2).
C2_Backoff ==
    /\ \A i \in 1 .. Len(sleeps) :
            /\ sleeps[i] = 2 ^ (i - 1)
            /\ i <= Len(outcomes)
            /\ ~AttemptSucceeded(req.variant, outcomes[i])
            /\ i < client.config.max_retries
    /\ pc = "sleep" => Len(sleeps) = Len(outcomes)
    /\ pc = "attempt" => Len(sleeps) = Len(outcomes)
    /\ (LoopEnded /\ outcomes # <<>>) => Len(sleeps) = Len(outcomes) - 1
    /\ (LoopEnded /\ client.config.max_retries >= 1 /\ AllFailed) =>
            sleeps = [i \in 1 .. client.config.max_retries - 1 |-> 2 ^ (i - 1)]

C2_Witness ==
    /\ LoopEnded
    /\ AllFailed
    /\ Len(sleeps) >= 2
    /\ sleeps[1] = 1
    /\ sleeps[2] = 2

\* C3 (as claimed): for every max_retries, 0 and negative included, the
\* requester returns normally only when one of its attempts received a 2xx
\* response whose body was decoded, and what it returns is that body, never
\* None or an empty placeholder.
C3_ReturnsOnlyDecodedBody ==
    loopResult.kind = "return" =>
        /\ outcomes # <<>>
        /\ AttemptSucceeded(req.variant, Last(outcomes))
        /\ req.variant = "json" => loopResult.value = Last(outcomes).json
        /\ req.variant = "text" => loopResult.value = Last(outcomes).text

\* C4: when the final attempt fails, the one error raised begins with
\* "AAP API request failed" and describes the final attempt: its status
\* code and body for a non-2xx response, the transport error's message for
\* a transport failure; it is raised at the final attempt only and carries
\* nothing of an earlier attempt that failed differently.
C4_FinalError ==
    loopResult.kind = "raise" =>
        LET final == Last(outcomes)
            msg == loopResult.exc.msg
        IN  /\ Len(outcomes) = client.config.max_retries
            /\ StartsWith(msg, "AAP API request failed")
            /\ final.kind = "status" =>
                    EndsWith(msg, ToString(final.code) \o " - " \o final.text)
            /\ final.kind = "transport" => EndsWith(msg, final.msg)
            /\ \A i \in 1 .. Len(outcomes) - 1 :
                    FailureText(outcomes[i]) # FailureText(final)
                        => ~Contains(msg, FailureText(outcomes[i]))

C4_Witness ==
    /\ loopResult.kind = "raise"
    /\ Len(outcomes) >= 2
    /\ outcomes[1].kind = "transport"
    /\ Last(outcomes).kind = "status"
    /\ Last(outcomes).code = 404

----------------------------------------------------------------------------
(* Properties of the tools and of the client methods.                      *)

\* C5: each of the eight tools returns text and never propagates an
\* exception: an exception raised while the client is constructed or while
\* the client method runs is caught, and the text is "Error: " followed by
\* the exception's message.
C5_ToolsReturnText ==
    ToolDone =>
        /\ toolResult.kind = "return"
        /\ result.kind = "raise"
                => toolResult.value = "Error: " \o result.exc.msg

C5_Witness ==
    /\ ToolDone
    /\ call.tool = "get_host_inventories"
    /\ Len(requests) >= 2
    /\ result.kind = "raise"
    /\ toolResult.kind = "return"

\* the upstream call behind the finished tool call failed on every attempt
UpstreamFailedThroughout == ToolDone /\ outcomes # <<>> /\ AllFailed

\* C6 (as claimed): for each of the eight tools, test_aap_connection
\* included, the text returned when the upstream call fails on every
\* attempt begins with "Error: ".
C6_EveryToolErrorText ==
    UpstreamFailedThroughout =>
        /\ toolResult.kind = "return"
        /\ StartsWith(toolResult.value, "Error: ")

\* C6 (amended): for each tool other than test_aap_connection, the text
\* returned when the upstream call fails on every attempt begins with
\* "Error: "; test_aap_connection returns its connection-test block, which
\* reports FAILED.
C6_ErrorTextExceptConnectionTest ==
    UpstreamFailedThroughout =>
        /\ toolResult.kind = "return"
        /\ IF call.tool = "test_aap_connection"
           THEN StartsWith(toolResult.value,
                           "AAP Connection Test: <cross> FAILED")
           ELSE StartsWith(toolResult.value, "Error: ")

C6_Witness ==
    /\ UpstreamFailedThroughout
    /\ call.tool = "get_job_status"
    /\ Len(outcomes) >= 2
    /\ Last(outcomes).kind = "status"
    /\ StartsWith(toolResult.value, "Error: ")

\* C7 (as claimed): test_connection never raises and returns a boolean; it
\* returns true only if a request to me/ was issued and got a 2xx response,
\* and false for every failure, for every max_retries.
C7_TestConnection ==
    (pc = "done" /\ call.op = "test_connection" /\ client.built) =>
        /\ result.kind = "return"
        /\ result.value \in BOOLEAN
        /\ result.value =>
                /\ requests # <<>>
                /\ Last(requests).url = "/api/controller/v2/me/"
                /\ Last(outcomes).kind = "ok"
        /\ (outcomes # <<>> /\ Last(outcomes).kind # "ok") => ~result.value

\* the values of the configuration the caller of the call supplied
SuppliedUrl ==
    IF call.config # NoConfig THEN call.config.url
    ELSE IF env.AAP_URL = Unset THEN "" ELSE env.AAP_URL

SuppliedToken ==
    IF call.config # NoConfig THEN call.config.token
    ELSE IF env.AAP_TOKEN = Unset THEN "" ELSE env.AAP_TOKEN

IsIntegerLiteral(v) == \E n \in -1 .. 60 : ToString(n) = v

\* the configuration is one: the integers of the environment are integers
SuppliedIsConfig ==
    call.config = NoConfig =>
        /\ env.AAP_TIMEOUT = Unset \/ IsIntegerLiteral(env.AAP_TIMEOUT)
        /\ env.AAP_MAX_RETRIES = Unset
                \/ IsIntegerLiteral(env.AAP_MAX_RETRIES)

\* the stored configuration equals what the environment holds
StoredEqualsEnv(config) ==
    /\ config.url = env.AAP_URL
    /\ config.token = env.AAP_TOKEN
    /\ config.project_id
            = (IF env.AAP_PROJECT_ID = Unset THEN "" ELSE env.AAP_PROJECT_ID)
    /\ env.AAP_VERIFY_SSL \in {Unset, "True", "true", "TRUE"}
            => config.verify_ssl
    /\ env.AAP_VERIFY_SSL \in {"False", "false"} => ~config.verify_ssl
    /\ IF env.AAP_TIMEOUT = Unset THEN config.timeout = 30
       ELSE ToString(config.timeout) = env.AAP_TIMEOUT
    /\ IF env.AAP_MAX_RETRIES = Unset THEN config.max_retries = 3
       ELSE ToString(config.max_retries) = env.AAP_MAX_RETRIES

\* C8: constructing a client with a configuration, explicit or read from
\* the environment, whose URL or token is empty or missing fails with
\* "AAP_URL and AAP_TOKEN must be configured", before an HTTP client exists
\* and before any request; with a non-empty URL and token it succeeds and
\* the stored values equal the supplied ones.
C8_Construction ==
    (call.via # "none" /\ SuppliedIsConfig) =>
        IF SuppliedUrl = "" \/ SuppliedToken = ""
        THEN /\ pc = "done"
             /\ client = NoClient
             /\ requests = <<>>
             /\ result = Raise(Exc("ValueError",
                                   "AAP_URL and AAP_TOKEN must be configured"))
        ELSE /\ client.built
             /\ client.http \in {"open", "closed"}
             /\ IF call.config # NoConfig
                THEN client.config = call.config
                ELSE StoredEqualsEnv(client.config)

C8_Witness ==
    /\ call.via = "client"
    /\ call.config = NoConfig
    /\ env.AAP_URL # Unset
    /\ env.AAP_URL # ""
    /\ env.AAP_TOKEN = ""
    /\ client = NoClient
    /\ result.kind = "raise"

\* C9: the JSON body of a launch request has no key for an optional
\* argument the caller omitted; launching with only a template id sends a
\* body with none of extra_vars, inventory, credentials, limit.
C9_NoKeyForOmitted ==
    \A i \in 1 .. Len(requests) :
        IsLaunchRequest(requests[i]) =>
            /\ (DOMAIN requests[i].json) \cap LaunchOptional
                    \subseteq DOMAIN call.args
            /\ DOMAIN call.args = {"template_id"}
                    => (DOMAIN requests[i].json) \cap LaunchOptional = {}

C9_Witness ==
    /\ requests # <<>>
    /\ IsLaunchRequest(requests[1])
    /\ DOMAIN call.args = {"template_id"}
    /\ requests[1].method = "POST"
    /\ DOMAIN requests[1].json = {}

\* C10 (as claimed): the key set of the launch request body is exactly the
\* set of optional arguments the caller supplied among extra_vars,
\* inventory, credentials and limit, each with the supplied value; a
\* supplied limit in particular is sent in the body of the launch request.
C10_BodyIsSupplied ==
    /\ \A i \in 1 .. Len(requests) :
            IsLaunchRequest(requests[i]) =>
                /\ DOMAIN requests[i].json
                        = (DOMAIN call.args) \cap LaunchOptional
                /\ \A k \in DOMAIN requests[i].json :
                        requests[i].json[k] = call.args[k]
    /\ (pc = "done" /\ call.op = "launch_job_template" /\ client.built
            /\ client.config.max_retries >= 1
            /\ "limit" \in DOMAIN call.args) =>
                \E i \in 1 .. Len(requests) :
                    /\ IsLaunchRequest(requests[i])
                    /\ "limit" \in DOMAIN requests[i].json

----------------------------------------------------------------------------
(* Properties of the launch tool and of the typed template records.        *)

\* no call of the requester made so far was refused: each returned
NothingRefused ==
    \A i \in 1 .. Len(requesterCalls) :
        requesterCalls[i].result.kind = "return"

\* C11 (as claimed): a call of the launch_job_template tool, with any
\* combination of supplied and omitted optional arguments, on a client with
\* max_retries >= 1 and with upstream refusing nothing, returns the text
\* block that starts with "Job launched successfully!" and states the Job
\* ID, Launch ID, URL and Type of the launch record, not an error text.
C11_LaunchToolSucceeds ==
    (/\ ToolDone
     /\ call.tool = "launch_job_template"
     /\ client.built
     /\ client.config.max_retries >= 1
     /\ NothingRefused) =>
        /\ StartsWith(toolResult.value, "Job launched successfully!")
        /\ Contains(toolResult.value,
                    "Job ID: " \o ToString(LaunchRecord.job) \o "\n")
        /\ Contains(toolResult.value,
                    "Launch ID: " \o ToString(LaunchRecord.id) \o "\n")
        /\ Contains(toolResult.value, "URL: " \o LaunchRecord.url \o "\n")
        /\ Contains(toolResult.value, "Type: " \o LaunchRecord.type \o "\n")
        /\ ~StartsWith(toolResult.value, "Error: ")

\* the upstream template records the last response of the call carried
TemplatesReceived ==
    IF outcomes = <<>> \/ Last(outcomes).kind # "ok"
       \/ Last(outcomes).json = NotJson
    THEN <<>>
    ELSE IF req.resource = "job_templates"
         THEN GetResults(Last(outcomes).json)
         ELSE IF req.resource = "job_template"
              THEN <<Last(outcomes).json>>
              ELSE <<>>

HasEmptyExtraVars(template_data) ==
    /\ "extra_vars" \in DOMAIN template_data
    /\ template_data.extra_vars.t = "str"
    /\ template_data.extra_vars.v = ""

\* the typed records a finished template method returned
TemplatesBuilt ==
    IF call.op = "get_job_templates" THEN result.value ELSE <<result.value>>

\* C12 (as claimed): when list job templates or get one job template has
\* received upstream template records, the method returns (it does not
\* fail over an extra_vars of ""), and the typed record built from each
\* upstream record whose extra_vars is the empty string has no extra_vars.
C12_EmptyExtraVarsIsAbsent ==
    (/\ pc = "done"
     /\ call.op \in {"get_job_templates", "get_job_template"}
     /\ \E i \in 1 .. Len(TemplatesReceived) :
            HasEmptyExtraVars(TemplatesReceived[i])
     /\ \A i \in 1 .. Len(TemplatesReceived) :
            \/ HasEmptyExtraVars(TemplatesReceived[i])
            \/ "extra_vars" \notin DOMAIN TemplatesReceived[i]
            \/ TemplatesReceived[i].extra_vars.t = "dict") =>
        /\ result.kind = "return"
        /\ Len(TemplatesBuilt) = Len(TemplatesReceived)
        /\ \A i \in 1 .. Len(TemplatesReceived) :
                HasEmptyExtraVars(TemplatesReceived[i]) =>
                    "extra_vars" \notin DOMAIN TemplatesBuilt[i]

----------------------------------------------------------------------------
(* Properties of the listings.                                             *)

\* the inventories upstream returned to the first requester call
InventoriesReturned == GetResults(requesterCalls[1].result.value)

\* C13: a get_inventories call that returns has made exactly 1 + N calls of
\* the requester, N being the number of inventories upstream returned: the
\* inventories call first, then one hosts call per inventory in upstream
\* return order; and at every moment every requester call but the last one
\* of the call has ended, so no two are in flight together.
C13_OnePlusN ==
    /\ (pc = "done" /\ call.op = "get_inventories"
            /\ result.kind = "return") =>
            /\ Len(requesterCalls) = 1 + Len(InventoriesReturned)
            /\ Len(result.value) = Len(InventoriesReturned)
            /\ requesterCalls[1].req.method = "GET"
            /\ requesterCalls[1].req.endpoint = "inventories/"
            /\ \A i \in 1 .. Len(InventoriesReturned) :
                    /\ requesterCalls[1 + i].req.method = "GET"
                    /\ requesterCalls[1 + i].req.endpoint =
                            "inventories/"
                                \o ToString(InventoriesReturned[i].id)
                                \o "/hosts/"
                    /\ result.value[i].id = InventoriesReturned[i].id
    /\ (pc # "idle" /\ call.op = "get_inventories") =>
            \A i \in 1 .. Len(requesterCalls) - 1 :
                requesterCalls[i].result.kind = "return"

C13_Witness ==
    /\ pc = "done"
    /\ call.op = "get_inventories"
    /\ result.kind = "return"
    /\ Len(InventoriesReturned) = 2
    /\ InventoriesReturned[1].id = 2
    /\ Len(requesterCalls) = 3
    /\ requesterCalls[2].req.endpoint = "inventories/2/hosts/"
    /\ requesterCalls[3].req.endpoint = "inventories/1/hosts/"
    /\ Len(requests) > 3

\* the first position of sub in s, 0 when s does not contain it
IndexOf(s, sub) ==
    IF Contains(s, sub)
    THEN CHOOSE i \in 1 .. (Len(s) - Len(sub) + 1) :
            /\ SubSeq(s, i, i + Len(sub) - 1) = sub
            /\ \A j \in 1 .. (i - 1) : SubSeq(s, j, j + Len(sub) - 1) # sub
    ELSE 0

\* the number of places of s where sub starts
Count(s, sub) ==
    Cardinality({i \in 1 .. (Len(s) - Len(sub) + 1) :
                    SubSeq(s, i, i + Len(sub) - 1) = sub})

\* s from position i on
From(s, i) == SubSeq(s, i, Len(s))

\* the part of a listing text before the separator, and the JSON part
Separator == "\n---\n"
BeforeSeparator(s) == SubSeq(s, 1, IndexOf(s, Separator) - 1)
AfterSeparator(s) == From(s, IndexOf(s, Separator) + Len(Separator))

\* the positions are those of substrings that occur, one after another
Ascending(positions) ==
    /\ \A i \in 1 .. Len(positions) : positions[i] > 0
    /\ \A i \in 1 .. Len(positions) - 1 : positions[i] < positions[i + 1]

\* the get_job_templates tool has formatted a page of templates
TemplatesListed ==
    /\ ToolDone
    /\ call.tool = "get_job_templates"
    /\ result.kind = "return"

\* C14: for a page of N >= 1 templates the text of get_job_templates is the
\* header "Found N job template", with "s" exactly when N # 1, and a
\* colon; then exactly N detail blocks numbered 1..N in upstream order; then
\* the "---" separator; then a JSON array of exactly N objects in the same
\* order, the i-th carrying id, name and playbook of the i-th template.
C14_TemplateListing ==
    (TemplatesListed /\ Len(TemplatesReceived) >= 1) =>
        LET ts == TemplatesReceived
            n == Len(ts)
            text == toolResult.value
            blocks == BeforeSeparator(text)
            array == AfterSeparator(text)
        IN  /\ StartsWith(text, "Found " \o ToString(n) \o " job template"
                                \o (IF n = 1 THEN ":" ELSE "s:"))
            /\ Count(text, Separator) = 1
            /\ Count(blocks, "** (ID: ") = n
            /\ Count(array, "** (ID: ") = 0
            /\ Ascending([i \in 1 .. n |->
                    IndexOf(blocks, "**" \o ToString(i) \o ". " \o ts[i].name
                                \o "** (ID: " \o ToString(ts[i].id) \o ")")])
            /\ Count(array, "{") = n
            /\ Count(array, "}") = n
            /\ Count(array, "[") = 1
            /\ Count(array, "]") = 1
            /\ IndexOf(array, "[") < IndexOf(array, "{")
            /\ IndexOf(array, "]") > IndexOf(array, "{")
            /\ Ascending([j \in 1 .. 4 * n |->
                    LET i == (j + 3) \div 4
                        t == ts[i]
                        k == j - 4 * (i - 1)
                        \* the i-th object, found after the (i-1)-th "}"
                        start == IF i = 1 THEN 1
                                 ELSE CHOOSE q \in 1 .. Len(array) :
                                        /\ SubSeq(array, q, q) = "}"
                                        /\ Count(SubSeq(array, 1, q), "}")
                                                = i - 1
                        object == From(array, start)
                        at(sub) == IF Contains(object, sub)
                                   THEN start - 1 + IndexOf(object, sub)
                                   ELSE 0
                    IN  CASE k = 1 -> at("{")
                          [] k = 2 -> at("\"id\": " \o ToString(t.id) \o ",")
                          [] k = 3 -> at("\"name\": \"" \o t.name \o "\"")
                          [] k = 4 -> at("\"playbook\": \"" \o t.playbook
                                            \o "\"")])

C14_Witness ==
    /\ TemplatesListed
    /\ Len(TemplatesReceived) = 3
    /\ StartsWith(toolResult.value, "Found 3 job templates:")
    /\ Contains(toolResult.value, "**3. Patch** (ID: 3)")
    /\ Contains(toolResult.value, "\"playbook\": \"patch.yml\"")

ListingTools ==
    {"get_job_templates", "get_host_inventories", "get_organizations",
     "get_projects"}

\* a listing tool has formatted a page of at least one item
ItemsListed ==
    /\ ToolDone
    /\ call.tool \in ListingTools
    /\ result.kind = "return"
    /\ result.value # <<>>

\* C15 (as claimed): in the JSON array that ends the text of a listing tool
\* every object names its item, and no field of any object, of an item or
\* of a host of an inventory, has the value null: an optional field that is
\* None is left out.
C15_NoNullInJson ==
    ItemsListed =>
        /\ Count(toolResult.value, Separator) = 1
        /\ Count(AfterSeparator(toolResult.value), "\"name\": \"")
                >= Len(result.value)
        /\ ~Contains(AfterSeparator(toolResult.value), ": null")

\* upstream answered the listing of the call with an empty collection
EmptyCollectionListed ==
    /\ ToolDone
    /\ call.tool \in ListingTools
    /\ Len(requesterCalls) = 1
    /\ requesterCalls[1].result.kind = "return"
    /\ requesterCalls[1].result.value # None
    /\ GetResults(requesterCalls[1].result.value) = <<>>

\* C16: when upstream returns an empty collection, a listing tool returns
\* one sentence that starts with "No " and contains " found": no header, no
\* detail block, no "---" separator, no JSON array, and no error text.
C16_EmptyCollectionSentence ==
    EmptyCollectionListed =>
        /\ StartsWith(toolResult.value, "No ")
        /\ Contains(toolResult.value, " found")
        /\ EndsWith(toolResult.value, ".")
        /\ ~Contains(toolResult.value, "\n")
        /\ ~Contains(toolResult.value, "Found ")
        /\ ~Contains(toolResult.value, "**")
        /\ ~Contains(toolResult.value, "---")
        /\ ~Contains(toolResult.value, "[")
        /\ ~Contains(toolResult.value, "Error")

C16_Witness ==
    /\ EmptyCollectionListed
    /\ call.tool = "get_job_templates"
    /\ requests # <<>>
    /\ toolResult.value = "No job templates found in the specified project."

----------------------------------------------------------------------------
(* Properties of the requests and of the client.                           *)

\* C17: every requester call of get_job_stdout, and of no other method, goes
\* through the raw-text requester, and asks for jobs/<id>/stdout/ in the
\* txt format; once an attempt of it gets a 2xx response, the loop returns
\* the body text of that response unchanged, whether or not the body is
\* JSON, and the method returns that same text.
C17_LogsAreRawText ==
    pc # "idle" =>
        /\ \A i \in 1 .. Len(requesterCalls) :
                /\ requesterCalls[i].req.variant = "text"
                        <=> call.op = "get_job_stdout"
                /\ requesterCalls[i].req.variant = "text" =>
                        /\ requesterCalls[i].req.method = "GET"
                        /\ requesterCalls[i].req.endpoint =
                                "jobs/" \o ToString(call.args.job_id)
                                    \o "/stdout/?format=txt"
        /\ \A i \in 1 .. Len(requests) :
                call.op = "get_job_stdout" =>
                    EndsWith(requests[i].url, "/stdout/?format=txt")
        /\ (call.op = "get_job_stdout" /\ outcomes # <<>>
                /\ Last(outcomes).kind = "ok") =>
                /\ pc \in {"resume", "done"}
                /\ loopResult = Return(Last(outcomes).text)
                /\ pc = "done" => result = Return(Last(outcomes).text)

C17_Witness ==
    /\ pc = "done"
    /\ call.op = "get_job_stdout"
    /\ Len(outcomes) > 1
    /\ Last(outcomes).kind = "ok"
    /\ Last(outcomes).json = NotJson
    /\ result = Return("PLAY [all] ok=1")

\* C18 (as claimed): a get_job_templates call on a client built from an
\* explicit configuration issues GET requests whose URL is
\* "/api/v2/job_templates/".
C18_TestedUrl ==
    (pc # "idle" /\ call.via = "client" /\ call.config # NoConfig
        /\ call.op = "get_job_templates") =>
        \A i \in 1 .. Len(requests) :
            /\ requests[i].method = "GET"
            /\ requests[i].url = "/api/v2/job_templates/"

\* the number of inventories upstream returned to the call, 0 when the
\* inventories call has not returned a page
InventoryCount ==
    IF /\ requesterCalls # <<>>
       /\ requesterCalls[1].req.endpoint = "inventories/"
       /\ requesterCalls[1].result.kind = "return"
       /\ requesterCalls[1].result.value # None
    THEN Len(InventoriesReturned)
    ELSE 0

\* the requester calls a tool call may make
RequesterCallsAllowed ==
    IF call.tool = "get_host_inventories" THEN 1 + InventoryCount ELSE 1

\* a requester call that raised is the last one of the call, and no
\* endpoint is given to the requester twice
FailureIsFinal ==
    /\ \A i \in 1 .. Len(requesterCalls) - 1 :
            requesterCalls[i].result.kind = "return"
    /\ \A i, j \in 1 .. Len(requesterCalls) :
            i # j => requesterCalls[i].req.endpoint
                        # requesterCalls[j].req.endpoint
    /\ Len(requesterCalls) <= RequesterCallsAllowed
    /\ (pc = "done" /\ requesterCalls # <<>>
            /\ Last(requesterCalls).result.kind = "raise") =>
            \/ result = Last(requesterCalls).result
            \/ call.op = "test_connection" /\ result = Return(FALSE)

\* C19 (as claimed): in a tool call a failure of the requester is final, and
\* the call issues at most max_retries HTTP requests, get_host_inventories
\* at most (1 + N) * max_retries for N inventories returned.
C19_AtMostMaxRetries ==
    (pc # "idle" /\ call.via = "tool" /\ client.built) =>
        /\ FailureIsFinal
        /\ Len(requests)
                <= RequesterCallsAllowed * client.config.max_retries

\* max_retries, or 0 when it is negative: the length of range(max_retries)
RangeLen(max_retries) == IF max_retries > 0 THEN max_retries ELSE 0

\* C19 (amended): in a tool call a failure of the requester is final, and
\* the call issues at most max(max_retries, 0) HTTP requests,
\* get_host_inventories at most (1 + N) * max(max_retries, 0).
C19_AtMostRangeOfMaxRetries ==
    (pc # "idle" /\ call.via = "tool" /\ client.built) =>
        /\ FailureIsFinal
        /\ Len(requests)
                <= RequesterCallsAllowed * RangeLen(client.config.max_retries)

C19_Witness ==
    /\ ToolDone
    /\ call.tool = "get_host_inventories"
    /\ client.built
    /\ client.config.max_retries >= 2
    /\ InventoryCount = 2
    /\ Len(requesterCalls) = 2
    /\ requesterCalls[2].result.kind = "raise"
    /\ Len(requests) = 2 * client.config.max_retries
    /\ StartsWith(toolResult.value, "Error: AAP API request failed")

\* C20: every tool call constructs its own client, from the environment;
\* while the call issues requests that client is open; when the tool has
\* its text, on the success path and on every failure path, the HTTP
\* session of the client is closed; a closed client is used for no further
\* request, and between calls no client is kept.
C20_ClientPerCall ==
    /\ pc = "idle" => client = NoClient
    /\ (pc # "idle" /\ call.via = "tool") =>
            /\ call.config = NoConfig
            /\ client.built =>
                    /\ ConfigFromEnv(env).ok
                    /\ client.config = ConfigFromEnv(env).config
            /\ pc \in {"attempt", "sleep", "resume"} =>
                    client.built /\ client.http = "open"
            /\ toolResult.kind # "pending" =>
                    /\ pc = "done"
                    /\ client.built => client.http = "closed"
            /\ (client.built /\ client.http = "closed") =>
                    /\ pc = "done"
                    /\ toolResult.kind = "return"
            /\ (~client.built /\ pc = "done") => requests = <<>>

C20_Witness ==
    /\ ToolDone
    /\ call.tool = "get_job_output"
    /\ result.kind = "raise"
    /\ requests # <<>>
    /\ client.built
    /\ client.http = "closed"
    /\ StartsWith(toolResult.value, "Error: ")

----------------------------------------------------------------------------
(* Properties of the errors and of the effects of a call.                  *)

\* a resource method other than test_connection has raised
MethodRaised ==
    /\ pc = "done"
    /\ call.via = "client"
    /\ client.built
    /\ call.op # "test_connection"
    /\ result.kind = "raise"

\* C23 (as claimed): whatever a resource method other than test_connection
\* raises is the error its last requester call raised, unchanged: an
\* Exception whose message starts with "AAP API request failed: " and, for
\* a non-2xx response, carries the status code of that response.
C23_OnlyRequesterErrors ==
    MethodRaised =>
        /\ requesterCalls # <<>>
        /\ result = Last(requesterCalls).result
        /\ result.exc.type = "Exception"
        /\ StartsWith(result.exc.msg, "AAP API request failed: ")
        /\ Last(outcomes).kind = "status" =>
                Contains(result.exc.msg, ToString(Last(outcomes).code))

\* the retry loop on its own, from attempt k, given the responses os of
\* upstream in order: how it ends, Pending when the responses run out
RECURSIVE LoopAlone(_, _, _, _)
LoopAlone(variant, max_retries, k, os) ==
    IF ~InRange(max_retries, k) THEN LoopFallthrough(variant)
    ELSE IF os = <<>> THEN Pending
    ELSE LET step == LoopBody(variant, max_retries, k, Head(os))
         IN  IF step.kind = "sleep"
             THEN LoopAlone(variant, max_retries, k + 1, Tail(os))
             ELSE step

\* a method on its own, at the step m, given what its requester calls
\* returned or raised, in order
RECURSIVE MethodAlone(_, _, _)
MethodAlone(op, m, rs) ==
    IF m.kind # "request" THEN m
    ELSE IF rs = <<>> \/ Head(rs).kind = "pending" THEN Pending
    ELSE MethodAlone(op, MethodResume(op, m.req, m.acc, Head(rs)), Tail(rs))

\* what the requester calls of the call have returned or raised so far
RequesterResults ==
    [i \in 1 .. Len(requesterCalls) |-> requesterCalls[i].result]

\* the configuration the client of the call was constructed with
ConstructedWith ==
    IF call.config # NoConfig THEN call.config ELSE ConfigFromEnv(env).config

\* C25: while a caller runs methods on a client, one after another, with
\* any outcomes and retries, the configuration of the client stays the one
\* it was constructed with; every retry loop starts from attempt 0 and ends
\* as its own responses and max_retries determine; and every method ends as
\* its arguments and the results of its own requester calls determine,
\* whatever was called on the client before.
C25_NoLocalState ==
    (pc # "idle" /\ call.via = "client" /\ client.built) =>
        /\ client.config = ConstructedWith
        /\ client.base_url = ConstructedWith.url
        /\ pc = "attempt" => attempt = Len(outcomes)
        /\ pc = "sleep" => attempt + 1 = Len(outcomes)
        /\ LoopEnded =>
                loopResult = LoopAlone(req.variant, client.config.max_retries,
                                       0, outcomes)
        /\ (~LoopEnded /\ pc # "done") =>
                \/ pc = "attempt" /\ ~InRange(client.config.max_retries,
                                               attempt)
                \/ LoopAlone(req.variant, client.config.max_retries,
                             0, outcomes) = Pending
        /\ result = MethodAlone(call.op,
                                MethodStart(call.op, call.kwargs, call.args),
                                RequesterResults)
                \/ (pc # "done" /\ result = Pending)

C25_Witness ==
    /\ pc = "done"
    /\ call.via = "client"
    /\ earlierCalls = 1
    /\ call.op = "get_job_templates"
    /\ Len(outcomes) >= 2
    /\ result.kind = "return"
    /\ Len(result.value) = 3
    /\ client.http = "open"

\* the hosts upstream returned to the hosts call made for inventory number i
HostsReturned(i) == GetResults(requesterCalls[1 + i].result.value)

\* get_inventories has returned its list
InventoriesListed ==
    /\ pc = "done"
    /\ call.op = "get_inventories"
    /\ result.kind = "return"

\* C26: the list get_inventories returns has one entry per upstream
\* inventory, in upstream return order; the hosts of entry i are exactly the
\* hosts returned by the hosts call made for the id of inventory i, in
\* upstream return order, so no host appears under another inventory; and
\* the text of the tool lists them in that order.
C26_HostsUnderTheirInventory ==
    InventoriesListed =>
        /\ Len(result.value) = Len(InventoriesReturned)
        /\ \A i \in 1 .. Len(result.value) :
                /\ result.value[i].id = InventoriesReturned[i].id
                /\ result.value[i].name = InventoriesReturned[i].name
                /\ requesterCalls[1 + i].req.endpoint =
                        "inventories/" \o ToString(result.value[i].id)
                            \o "/hosts/"
                /\ Len(result.value[i].hosts) = Len(HostsReturned(i))
                /\ \A j \in 1 .. Len(HostsReturned(i)) :
                        /\ result.value[i].hosts[j].id = HostsReturned(i)[j].id
                        /\ result.value[i].hosts[j].name
                                = HostsReturned(i)[j].name
                        /\ result.value[i].hosts[j].id \div 10
                                = result.value[i].id
        /\ (call.via = "tool" /\ result.value # <<>>) =>
                \A i \in 1 .. Len(result.value) :
                    LET blocks == BeforeSeparator(toolResult.value)
                        block == From(blocks,
                                      IndexOf(blocks, "**" \o ToString(i) \o ". "))
                    IN  Ascending(
                            <<IndexOf(block, result.value[i].name \o "** (ID: ")>>
                            \o [j \in 1 .. Len(HostsReturned(i)) |->
                                   IndexOf(block, "- Host " \o ToString(j) \o ": "
                                             \o HostsReturned(i)[j].name
                                             \o "\n")])

C26_Witness ==
    /\ InventoriesListed
    /\ call.via = "tool"
    /\ Len(result.value) = 2
    /\ result.value[1].id = 2
    /\ Len(result.value[1].hosts) = 2
    /\ result.value[1].hosts[1].name = "host22"
    /\ result.value[2].hosts = <<>>
    /\ Contains(toolResult.value, "- Host 2: host21\n")

\* C27 (as claimed): within one call of the requester a 2xx response ends
\* the call: it is the response of the last attempt, the loop has ended with
\* it, and no sleep follows it, whatever the body of the response.
C27_NothingAfter2xx ==
    (pc # "idle" /\ client.built) =>
        /\ \A i \in 1 .. Len(outcomes) - 1 : outcomes[i].kind # "ok"
        /\ (outcomes # <<>> /\ Last(outcomes).kind = "ok") =>
                /\ pc \in {"resume", "done"}
                /\ LoopEnded
                /\ Len(sleeps) = Len(outcomes) - 1

\* the launch POSTs of the call upstream has accepted: answered with 2xx
LaunchesAccepted ==
    {i \in 1 .. Len(outcomes) :
        /\ req.endpoint = "job_templates/" \o ToString(req.id) \o "/launch/"
        /\ req.method = "POST"
        /\ outcomes[i].kind = "ok"}

\* C28 (as claimed): upstream accepts at most one launch POST of one
\* launch_job_template call, under every pattern of outcomes of its
\* attempts.
C28_AtMostOneJob ==
    (pc # "idle" /\ call.op = "launch_job_template") =>
        Cardinality(LaunchesAccepted) <= 1

\* a requester call of the get_inventories call in progress has raised
InventoriesCallFailed ==
    /\ pc = "done"
    /\ call.op = "get_inventories"
    /\ \E i \in 1 .. Len(requesterCalls) :
            requesterCalls[i].result.kind = "raise"

\* C29: when the inventories call or a hosts call of get_inventories has
\* failed after its retries, it is the last requester call of the
\* operation, the operation raises its error and returns no list, and the
\* get_host_inventories tool returns an "Error: " text that lists no
\* inventory.
C29_AllOrNothing ==
    InventoriesCallFailed =>
        /\ \A i \in 1 .. Len(requesterCalls) - 1 :
                requesterCalls[i].result.kind = "return"
        /\ result = Last(requesterCalls).result
        /\ result.kind = "raise"
        /\ call.via = "tool" =>
                /\ toolResult.value = "Error: " \o result.exc.msg
                /\ ~Contains(toolResult.value, "Found ")
                /\ ~Contains(toolResult.value, "** (ID: ")

C29_Witness ==
    /\ InventoriesCallFailed
    /\ call.via = "tool"
    /\ InventoryCount = 2
    /\ Len(requesterCalls) = 3
    /\ requesterCalls[2].result.kind = "return"
    /\ GetResults(requesterCalls[2].result.value) # <<>>
    /\ StartsWith(toolResult.value, "Error: AAP API request failed: ")

----------------------------------------------------------------------------
(* Progress of a tool call.                                                *)

\* a tool has its text only when its method is over: every requester call
\* has ended, none took more than max_retries attempts, and a listing of
\* inventories made its one pass over the inventories upstream returned
ReturnsAfterItsLoops ==
    /\ toolResult.kind # "pending" =>
            /\ pc = "done"
            /\ toolResult.kind = "return"
            /\ \A i \in 1 .. Len(requesterCalls) :
                    requesterCalls[i].result.kind # "pending"
            /\ (call.tool = "get_host_inventories" /\ result.kind = "return")
                    => Len(requesterCalls) = 1 + InventoryCount
    /\ (pc # "idle" /\ call.via = "tool" /\ client.built) =>
            /\ Len(outcomes) <= RangeLen(client.config.max_retries)
            /\ Len(requesterCalls) <= 1 + InventoryCount

\* C24 (as claimed): the retry loop of a tool call ends after at most
\* max_retries attempts.
C24_EndsWithinMaxRetries ==
    (pc # "idle" /\ call.via = "tool" /\ client.built) =>
        Len(outcomes) <= client.config.max_retries

\* C24 (amended): with every attempt completing or timing out, every tool
\* call that has begun eventually returns its text; each retry loop makes at
\* most max(max_retries, 0) attempts, the inventories fan-out makes one pass
\* over the inventories returned, and the tool never has its text before its
\* retry loops and its fan-out have ended.
C24_ToolCallReturns ==
    /\ []ReturnsAfterItsLoops
    /\ (pc # "idle" /\ call.via = "tool")
            ~> (ToolDone /\ toolResult.kind = "return")

C24_Witness ==
    /\ ToolDone
    /\ call.tool = "get_host_inventories"
    /\ result.kind = "return"
    /\ InventoryCount = 2
    /\ Len(requesterCalls) = 3
    /\ Len(requests) > 3
    /\ StartsWith(toolResult.value, "Found 2 inventories:")

----------------------------------------------------------------------------
(* The configuration of a process.                                         *)

\* C22: the configuration is loaded once at process start: the client of
\* every tool call has the configuration values of the environment the
\* process started with, also when the environment has changed since.
C22_ConfigLoadedOnce ==
    (pc # "idle" /\ call.via = "tool" /\ client.built) =>
        client.config = ConfigFromEnv(startupEnv).config

----------------------------------------------------------------------------
(* Tool calls in flight at once.                                           *)

\* the calls in flight: the running one and the suspended ones
InFlight ==
    {Frame} \cup {inflight[i] : i \in 1 .. Len(inflight)}

\* a suspended call is in its backoff sleep
SomeoneSleeps == \E i \in 1 .. Len(inflight) : inflight[i].pc = "sleep"

\* the call of the coroutine f is where it would be had it run alone against
\* the responses it got: its client is the one constructed for it and is
\* open while it runs, its attempt counter is the number of its own
\* attempts, its loop, its method and its tool end as its own responses
\* determine
AsIfAlone(f) ==
    f.client.built =>
        /\ f.client.config = ConfigFromEnv(env).config
        /\ f.pc # "done" => f.client.http = "open"
        /\ f.pc = "attempt" => f.attempt = Len(f.outcomes)
        /\ f.pc = "sleep" => f.attempt + 1 = Len(f.outcomes)
        /\ Len(f.requesterCalls) = 1 => Len(f.requests) = Len(f.outcomes)
        /\ f.loopResult.kind # "pending" =>
                f.loopResult = LoopAlone(f.req.variant,
                                         f.client.config.max_retries,
                                         0, f.outcomes)
        /\ (f.loopResult.kind = "pending" /\ f.pc # "done") =>
                \/ f.pc = "attempt"
                        /\ ~InRange(f.client.config.max_retries, f.attempt)
                \/ LoopAlone(f.req.variant, f.client.config.max_retries,
                             0, f.outcomes) = Pending
        /\ f.result = MethodAlone(
                          f.call.op,
                          MethodStart(f.call.op, f.call.kwargs, f.call.args),
                          [i \in 1 .. Len(f.requesterCalls) |->
                              f.requesterCalls[i].result])
                \/ (f.pc # "done" /\ f.result = Pending)
        /\ f.pc = "done" =>
                f.toolResult = ToolResult(f.call.tool, f.call.args,
                                          f.client.config, f.result)
        /\ f.pc # "done" => f.toolResult = Pending

\* C21: with several tool calls in flight, under every interleaving each
\* call has its own client and its own attempt counter, and its number of
\* attempts and its result are those of the call run alone against the same
\* responses; while a call is in its backoff sleep the running call can
\* issue its request and the runtime can start another call.
C21_CallsAreIndependent ==
    /\ \A f \in InFlight : f.pc # "idle" => AsIfAlone(f)
    /\ (SomeoneSleeps /\ pc = "attempt") => ENABLED Attempt
    /\ (SomeoneSleeps /\ pc = "idle" /\ Len(inflight) < MaxInFlight)
            => ENABLED CallConcurrently

C21_Witness ==
    /\ SomeoneSleeps
    /\ ToolDone
    /\ Len(requests) = 2
    /\ toolResult.kind = "return"
    /\ result.kind = "return"
    /\ \E i \in 1 .. Len(inflight) :
            /\ inflight[i].pc = "sleep"
            /\ inflight[i].call.tool = call.tool
            /\ inflight[i].attempt # attempt

====
